---- MODULE Spec2Model ----
(***************************************************************************)
(* Disaster Dollar Database dashboard: the Jan-25 downloader               *)
(* (DisasterDataDownloaderJan25), its filter, the choropleth map's state   *)
(* aggregation and colour thresholds, and the funding-field coercion; the  *)
(* fact sheet (FactSheetCreator, FactSheetDisplay, DisasterFundingChart):  *)
(* applicant estimates, regional spend, top events and district list; the  *)
(* CSV download and the three resource loads.                              *)
(*                                                                         *)
(* JavaScript numbers are modelled as exact integers and exact decimals    *)
(* (mantissa, power of ten); IEEE-754 rounding, NaN and Infinity as        *)
(* *inputs* are outside the model.  NaN as a parseFloat result is modelled.*)
(***************************************************************************)
EXTENDS Integers, Sequences, FiniteSets, TLC

\* ------------------------------------------------------------------ bounds
MaxAmount == 3      \* largest magnitude of a numeric funding cell
MaxStrLen == 3      \* longest funding string handed to parseFloat
MaxRecords == 2     \* most rows of the catalogue present in a loaded CSV
MaxFunding == 12    \* largest aggregate funding fed to the classifier
MaxEvents == 41     \* most rows of the disaster CSV read by the fact-sheet creator
MaxDistricts == 18  \* rows of the district CSV
MaxSelected == 2    \* most events in a selection handed to FactSheetDisplay
MaxBreakData == 3   \* most numbers in a list handed to the class-break functions
MaxClasses == 3     \* largest numClasses asked of the class-break functions
MaxTableRows == 12  \* rows of the CSV behind the paged record table
MaxDownloads == 2   \* most calls of the PDF download handler in flight at once

\* F applied to the value of v, with v evaluated once
Bind(v, F(_)) == CHOOSE r \in {F(x) : x \in {v}} : TRUE

\* ------------------------------------------------------- JavaScript values
Undefined == [type |-> "undefined", num |-> 0, str |-> <<>>]
Null == [type |-> "null", num |-> 0, str |-> <<>>]
Num(n) == [type |-> "number", num |-> n, str |-> <<>>]
Str(s) == [type |-> "string", num |-> 0, str |-> s]

\* typeof: null reports "object"
TypeOf(v) == IF v.type = "null" THEN "object" ELSE v.type

Chars == {" ", "-", "0", "7", "x"}
Digits == {"0", "7"}
DigitVal(c) == IF c = "7" THEN 7 ELSE 0

RECURSIVE SkipSpaces(_)
SkipSpaces(s) ==
  IF s # <<>> /\ Head(s) = " " THEN SkipSpaces(Tail(s)) ELSE s

\* longest prefix of digits of s, as [n |-> how many, v |-> their value]
RECURSIVE DigitRun(_, _, _)
DigitRun(s, n, acc) ==
  IF s # <<>> /\ Head(s) \in Digits
    THEN DigitRun(Tail(s), n + 1, acc * 10 + DigitVal(Head(s)))
    ELSE [n |-> n, v |-> acc]

\* parseFloat: skip leading white space, optional sign, longest decimal
\* prefix; NaN when no digit follows.  (The alphabet has no "." or "e".)
parseFloat(s) ==
  LET t == SkipSpaces(s)
      neg == t # <<>> /\ Head(t) = "-"
      u == IF neg THEN Tail(t) ELSE t
      run == DigitRun(u, 0, 0)
  IN  IF run.n = 0 THEN [nan |-> TRUE, v |-> 0]
      ELSE [nan |-> FALSE, v |-> IF neg THEN 0 - run.v ELSE run.v]

\* a finite JavaScript number
Fin(n) == [nan |-> FALSE, v |-> n]

\* x || 0 : NaN and (minus) zero are falsy
OrZero(p) == IF p.nan \/ p.v = 0 THEN Fin(0) ELSE p

\* variant: the string branch without its "|| 0"
coerceFundingNoFallback(v) ==
  IF TypeOf(v) = "number" THEN Fin(v.num)
  ELSE IF TypeOf(v) = "string" THEN parseFloat(v.str)
  ELSE Fin(0)

\* typeof v === 'number' ? v : (typeof v === 'string' ? parseFloat(v) || 0 : 0)
coerceFunding(v) ==
  IF TypeOf(v) = "number" THEN Fin(v.num)
  ELSE IF TypeOf(v) = "string" THEN OrZero(parseFloat(v.str))
  ELSE Fin(0)

\* x > 0 on a JavaScript number: false for NaN
GtZero(x) == ~x.nan /\ x.v > 0

\* ------------------------------------------------------------------ dates
IsLeap(y) == (y % 4 = 0 /\ y % 100 # 0) \/ y % 400 = 0

DaysInMonth(y, m) ==
  IF m = 2 THEN (IF IsLeap(y) THEN 29 ELSE 28)
  ELSE IF m \in {4, 6, 9, 11} THEN 30 ELSE 31

\* days of year y before the first of month m
DaysBeforeMonth(y, m) ==
  <<0, 31, 59, 90, 120, 151, 181, 212, 243, 273, 304, 334>>[m]
  + (IF m > 2 /\ IsLeap(y) THEN 1 ELSE 0)

LeapsBefore(y) == ((y - 1) \div 4) - ((y - 1) \div 100) + ((y - 1) \div 400)

\* days from 0001-01-01 to y-m-d
DayNumber(y, m, d) == 365 * (y - 1) + LeapsBefore(y) + DaysBeforeMonth(y, m) + (d - 1)

\* new Date(year, monthIndex, day): local midnight, in hours; a month index
\* of 12 and a day of 0 roll over as Date does
MakeDate(y, monthIndex, d) ==
  (DayNumber(y + (monthIndex \div 12), (monthIndex % 12) + 1, 1) + (d - 1)) * 24

\* incident_start cells.  kind "missing": empty cell (null); "invalid": text
\* Date cannot parse; "isoDate": YYYY-MM-DD, which Date parses as UTC
\* midnight; "usDate": M/D/YYYY, which Date parses as local midnight.
NoDate == [kind |-> "missing", y |-> 0, m |-> 0, d |-> 0]
BadDate == [kind |-> "invalid", y |-> 0, m |-> 0, d |-> 0]
IsoDate(y, m, d) == [kind |-> "isoDate", y |-> y, m |-> m, d |-> d]
UsDate(y, m, d) == [kind |-> "usDate", y |-> y, m |-> m, d |-> d]

\* new Date(string) as a local wall-clock instant in hours, for a browser
\* whose clock is z hours ahead of UTC; valid = FALSE is Invalid Date
NewDate(s, z) ==
  IF s.kind = "isoDate"
    THEN [valid |-> TRUE, t |-> DayNumber(s.y, s.m, s.d) * 24 + z]
  ELSE IF s.kind = "usDate"
    THEN [valid |-> TRUE, t |-> DayNumber(s.y, s.m, s.d) * 24]
  ELSE [valid |-> FALSE, t |-> 0]

\* ---------------------------------------------------------------- records
\* one parsed CSV row; a column the row lacks reads as undefined
Row(start, type, state, ihp, pa, cdbg, sba) ==
  [incident_start |-> start, incident_type |-> type, state |-> state,
   ihp_total |-> ihp, pa_total |-> pa, cdbg_dr_allocation |-> cdbg,
   sba_total_approved_loan_amount |-> sba]

Field(item, name) == IF name \in DOMAIN item THEN item[name] ELSE Undefined

\* rows a CSV may contain: first and last days of the selectable months in
\* both date formats, missing and unparseable dates, known states, a
\* territory, an empty state, and funding cells of every JavaScript type
Catalogue ==
  << Row(IsoDate(2025, 1, 1), "Flood", "TX", Num(2), Null, Null, Null),
     Row(UsDate(2025, 1, 1), "Fire", "TX", Str(<<"x">>), Num(0 - 1), Num(3), Num(1)),
     Row(UsDate(2025, 10, 31), "", "TX", Num(0), Str(<<"7", "x">>), Null, Null),
     Row(IsoDate(2025, 10, 31), "Flood", "PR", Num(0), Null, Null, Num(3)),
     Row(UsDate(2025, 1, 1), "Flood", "", Num(1), Num(1), Null, Null),
     Row(NoDate, "Flood", "TX", Num(1), Null, Null, Null),
     Row(BadDate, "Flood", "TX", Num(2), Null, Null, Null) >>

\* the CSVs under study: the empty file and every run of n consecutive rows
\* of seq
Windows(seq, n) ==
  {<<>>} \cup {SubSeq(seq, i, i + n - 1) : i \in 1..(Len(seq) - n + 1)}

Datasets == Windows(Catalogue, MaxRecords)

\* -------------------------------------------------------------- constants
\* the state-name table, cut down to one of its 51 keys; like the table it
\* holds no territory code
stateNames == ("TX" :> "Texas")
territories == {"PR", "GU", "VI", "MP", "AS", "FM", "MH", "PW"}
FundingTypes == {"ihp", "pa", "cdbg_dr_allocation", "sba_total_approved_loan_amount"}
YearChoices == {2025}
MonthChoices == {1, 10}
TimezoneOffsets == {0 - 5, 1}
InitialDateRange == [startYear |-> 2015, startMonth |-> 1, endYear |-> 2025, endMonth |-> 10]

\* --------------------------------------------------------- exact decimals
\* m * 10^e with m >= 0; canonical: m = 0 has e = 0, otherwise 10 does not
\* divide m, so equal values are equal records
RECURSIVE Pow10(_)
Pow10(n) == IF n = 0 THEN 1 ELSE 10 * Pow10(n - 1)

RECURSIVE NumDigits(_)
NumDigits(m) == IF m < 10 THEN 1 ELSE 1 + NumDigits(m \div 10)

RECURSIVE Dec(_, _)
Dec(m, e) ==
  IF m = 0 THEN [m |-> 0, e |-> 0]
  ELSE IF m % 10 = 0 THEN Dec(m \div 10, e + 1)
  ELSE [m |-> m, e |-> e]

DecInt(n) == Dec(n, 0)
DecZero == Dec(0, 0)

\* a * b
DecMul(a, b) == Dec(a.m * b.m, a.e + b.e)

\* a < b
DecLess(a, b) ==
  IF b.m = 0 THEN FALSE
  ELSE IF a.m = 0 THEN TRUE
  ELSE LET ma == a.e + NumDigits(a.m)
           mb == b.e + NumDigits(b.m)
           lo == IF a.e < b.e THEN a.e ELSE b.e
       IN  IF ma # mb THEN ma < mb
           ELSE a.m * Pow10(a.e - lo) < b.m * Pow10(b.e - lo)

\* magnitude = 10^floor(log10(t)); Math.ceil(t / magnitude) * magnitude
NiceCeil(t) ==
  LET n == NumDigits(t.m)
      p == Pow10(n - 1)
  IN  Dec((t.m + p - 1) \div p, t.e + n - 1)

\* ----------------------------------------------------- threshold classifier
DefaultLadder ==
  << DecZero, Dec(1, 2), Dec(1, 4), Dec(1, 5), Dec(1, 6), Dec(1, 7),
     Dec(1, 8), Dec(1, 9), Dec(5, 9) >>

InitialThresholds == DefaultLadder

\* 0, 0.0001, 0.001, 0.01, 0.05, 0.1, 0.25, 0.5, 1
Proportions ==
  << DecZero, Dec(1, 0 - 4), Dec(1, 0 - 3), Dec(1, 0 - 2), Dec(5, 0 - 2),
     Dec(1, 0 - 1), Dec(25, 0 - 2), Dec(5, 0 - 1), Dec(1, 0) >>

\* Math.max over a non-empty set of integers
SetMax(S) == CHOOSE x \in S : \A y \in S : y <= x

\* variant: the empty-input guard left out, the maximum taken as 0
calculateDynamicThresholdsNoLadder(sd) ==
  LET fundingValues == {f \in {sd[k].funding : k \in DOMAIN sd} : f > 0}
  IN  Bind(DecInt(IF fundingValues = {} THEN 0 ELSE SetMax(fundingValues)), LAMBDA max :
        Bind([i \in 1..9 |-> DecMul(max, Proportions[i])], LAMBDA thresholds :
          [i \in 1..9 |->
             IF thresholds[i] = DecZero THEN DecZero
             ELSE IF i = 9 THEN max
             ELSE NiceCeil(thresholds[i])]))

\* variant: the maximum is rounded like the other breakpoints
calculateDynamicThresholdsRoundsMax(sd) ==
  LET fundingValues == {f \in {sd[k].funding : k \in DOMAIN sd} : f > 0}
  IN  IF fundingValues = {} THEN DefaultLadder
      ELSE Bind(DecInt(SetMax(fundingValues)), LAMBDA max :
             Bind([i \in 1..9 |-> DecMul(max, Proportions[i])], LAMBDA thresholds :
               [i \in 1..9 |->
                  IF thresholds[i] = DecZero THEN DecZero
                  ELSE NiceCeil(thresholds[i])]))

\* variant: every breakpoint below the maximum is raised to the next power
\* of ten instead of the next multiple of its magnitude
calculateDynamicThresholdsCoarse(sd) ==
  LET fundingValues == {f \in {sd[k].funding : k \in DOMAIN sd} : f > 0}
  IN  IF fundingValues = {} THEN DefaultLadder
      ELSE Bind(DecInt(SetMax(fundingValues)), LAMBDA max :
             Bind([i \in 1..9 |-> DecMul(max, Proportions[i])], LAMBDA thresholds :
               [i \in 1..9 |->
                  IF thresholds[i] = DecZero THEN DecZero
                  ELSE IF i = 9 THEN max
                  ELSE IF thresholds[i].m = 1 THEN thresholds[i]
                  ELSE Dec(1, thresholds[i].e + NumDigits(thresholds[i].m))]))

\* stateData: a function from region code to [count, funding, types, typesFunding]
calculateDynamicThresholds(sd) ==
  LET fundingValues == {f \in {sd[k].funding : k \in DOMAIN sd} : f > 0}
  IN  IF fundingValues = {} THEN DefaultLadder
      ELSE Bind(DecInt(SetMax(fundingValues)), LAMBDA max :
             Bind([i \in 1..9 |-> DecMul(max, Proportions[i])], LAMBDA thresholds :
               [i \in 1..9 |->
                  IF thresholds[i] = DecZero THEN DecZero
                  ELSE IF i = 9 THEN max
                  ELSE NiceCeil(thresholds[i])]))

\* new Set(a): the distinct values of a
Unique(a) == {a[i] : i \in DOMAIN a}

\* [...S].sort((a, b) => a - b): the values in ascending order
\* x put into the ascending sequence s, after the elements less than it
InsertAsc(x, s) ==
  Bind(Cardinality({i \in DOMAIN s : DecLess(s[i], x)}), LAMBDA k :
    SubSeq(s, 1, k) \o <<x>> \o SubSeq(s, k + 1, Len(s)))

\* variant: the comparator reversed, (a, b) => b - a
RECURSIVE SortDesc(_)
SortDesc(S) ==
  IF S = {} THEN <<>>
  ELSE Bind(CHOOSE x \in S : TRUE, LAMBDA x :
         Bind(SortDesc(S \ {x}), LAMBDA rest :
           Bind(Cardinality({i \in DOMAIN rest : DecLess(x, rest[i])}), LAMBDA k :
             SubSeq(rest, 1, k) \o <<x>> \o SubSeq(rest, k + 1, Len(rest)))))

RECURSIVE SortAsc(_)
SortAsc(S) ==
  IF S = {} THEN <<>>
  ELSE Bind(CHOOSE x \in S : TRUE, LAMBDA x :
         Bind(SortAsc(S \ {x}), LAMBDA rest : InsertAsc(x, rest)))

\* the threshold effect: [...new Set(newThresholds)].sort((a, b) => a - b)
uniqueThresholds(sd) == SortAsc(Unique(calculateDynamicThresholds(sd)))

\* ------------------------------------------------------- state aggregator
EmptyStateData == [k \in {} |-> 0]

\* the funding this row adds to its state: the sources the map recognises
\* among the selected keys ('ihp', 'pa', 'cdbg_dr')
mapTotalFunding(item, sft) ==
  (IF "ihp" \in sft THEN coerceFunding(Field(item, "ihp_total")).v ELSE 0)
  + (IF "pa" \in sft THEN coerceFunding(Field(item, "pa_total")).v ELSE 0)
  + (IF "cdbg_dr" \in sft THEN coerceFunding(Field(item, "cdbg_dr_total")).v ELSE 0)

\* sum of totalFunding over the rows 1..n of fd in state k (and, when
\* type # "", of that incident type)
RECURSIVE sumFunding(_, _, _, _, _)
sumFunding(fd, k, type, sft, n) ==
  IF n = 0 THEN 0
  ELSE (IF fd[n].state = k /\ (type = "" \/ fd[n].incident_type = type)
          THEN mapTotalFunding(fd[n], sft) ELSE 0)
       + sumFunding(fd, k, type, sft, n - 1)

\* variant: the check against the state-name table left out
getStateDataKeepsUnknown(fd, names, sft) ==
  LET rowsOf(k) == {i \in 1..Len(fd) : fd[i].state = k}
      typesOf(k) == {fd[i].incident_type : i \in rowsOf(k)} \ {""}
      keys == {fd[i].state : i \in 1..Len(fd)} \ {""}
  IN  [k \in keys |->
         [count |-> Cardinality(rowsOf(k)),
          funding |-> sumFunding(fd, k, "", sft, Len(fd)),
          types |-> [t \in typesOf(k) |->
                       Cardinality({i \in rowsOf(k) : fd[i].incident_type = t})],
          typesFunding |-> [t \in typesOf(k) |-> sumFunding(fd, k, t, sft, Len(fd))]]]

\* filteredData.forEach in getStateData, as the aggregate it leaves: rows
\* with an empty state or a state that is not a key of names are skipped;
\* every other row adds 1 to its state's count and its totalFunding to the
\* state's funding, and the same to the entry of its incident type
getStateData(fd, names, sft) ==
  LET rowsOf(k) == {i \in 1..Len(fd) : fd[i].state = k}
      typesOf(k) == {fd[i].incident_type : i \in rowsOf(k)} \ {""}
      keys == {k \in DOMAIN names : k # "" /\ rowsOf(k) # {}}
  IN  [k \in keys |->
         [count |-> Cardinality(rowsOf(k)),
          funding |-> sumFunding(fd, k, "", sft, Len(fd)),
          types |-> [t \in typesOf(k) |->
                       Cardinality({i \in rowsOf(k) : fd[i].incident_type = t})],
          typesFunding |-> [t \in typesOf(k) |-> sumFunding(fd, k, t, sft, Len(fd))]]]

\* ------------------------------------------------------------------ filter
dateMatch(row, dr, z) ==
  LET incidentDate == NewDate(row.incident_start, z)
      startDate == MakeDate(dr.startYear, dr.startMonth - 1, 1)
      endDate == MakeDate(dr.endYear, dr.endMonth, 0)
  IN  incidentDate.valid /\ incidentDate.t >= startDate /\ incidentDate.t <= endDate

\* variant: a territory row matches only under the include-territories flag
stateMatchTerritoriesNeedFlag(row, ss, terr) ==
  IF row.state \in territories THEN terr
  ELSE ss = {} \/ row.state \in ss

stateMatch(row, ss, terr) ==
  IF ss = {} THEN TRUE
  ELSE IF row.state \in territories /\ terr THEN TRUE
  ELSE row.state \in ss

typeMatch(row, sdt) == sdt = {} \/ row.incident_type \in sdt

\* the four "includes(key) && value > 0" checks
anySelectedPositive(row, sft) ==
  \/ "ihp" \in sft /\ GtZero(coerceFunding(Field(row, "ihp_total")))
  \/ "pa" \in sft /\ GtZero(coerceFunding(Field(row, "pa_total")))
  \/ "cdbg_dr_allocation" \in sft
       /\ GtZero(coerceFunding(Field(row, "cdbg_dr_allocation")))
  \/ "sba_total_approved_loan_amount" \in sft
       /\ GtZero(coerceFunding(Field(row, "sba_total_approved_loan_amount")))

\* variant: fundingMatch starts false whatever is selected
fundingMatchNeedsSelection(row, sft) == anySelectedPositive(row, sft)

\* variant: every selected source must be positive
fundingMatchEverySelected(row, sft) ==
  /\ "ihp" \in sft => GtZero(coerceFunding(Field(row, "ihp_total")))
  /\ "pa" \in sft => GtZero(coerceFunding(Field(row, "pa_total")))
  /\ "cdbg_dr_allocation" \in sft
       => GtZero(coerceFunding(Field(row, "cdbg_dr_allocation")))
  /\ "sba_total_approved_loan_amount" \in sft
       => GtZero(coerceFunding(Field(row, "sba_total_approved_loan_amount")))

\* let fundingMatch = true; if (selectedFundingTypes.length > 0) { false, then
\* the checks }
fundingMatch(row, sft) ==
  IF sft = {} THEN TRUE ELSE anySelectedPositive(row, sft)

\* the callback of data.filter
rowPasses(row, dr, ss, terr, sdt, sft, z) ==
  IF row.incident_start.kind = "missing" THEN FALSE
  ELSE dateMatch(row, dr, z) /\ stateMatch(row, ss, terr)
       /\ typeMatch(row, sdt) /\ fundingMatch(row, sft)

\* variant: the first row is taken for a header and skipped
FilterSkipsFirstRow(rows, dr, ss, terr, sdt, sft, z) ==
  LET keep(row) == rowPasses(row, dr, ss, terr, sdt, sft, z)
  IN  SelectSeq(IF rows = <<>> THEN <<>> ELSE Tail(rows), keep)

\* rows.filter(callback): the rows that pass, in their order
Filter(rows, dr, ss, terr, sdt, sft, z) ==
  LET keep(row) == rowPasses(row, dr, ss, terr, sdt, sft, z)
  IN  SelectSeq(rows, keep)

\* ------------------------------------------------------------------- state
VARIABLES
  data,                   \* rows of the loaded CSV
  loading,                \* the CSV has not arrived yet
  tz,                     \* the browser's offset from UTC, in hours
  dateRange,              \* startYear, startMonth, endYear, endMonth
  selectedStates,
  includesTerritories,
  selectedDisasterTypes,
  selectedFundingTypes,
  stateData,              \* the aggregate the map's last effect computed
  dynamicThresholds,      \* the map's colour breaks
  rawValue,               \* the input handed to the function under study
  coerced,                \* <<>> or the one result of the function under study
  applied,                \* a function under study has been applied to its input
  selectedEvent,          \* FactSheetCreator: the event on display, or Null
  selectedEvents,         \* FactSheetDisplay: the selectedEvents prop
  sortField,              \* FactSheetDisplay: "funding" or "applicants"
  sortDirection,          \* FactSheetDisplay: "asc" or "desc"
  congressionalData,      \* FactSheetDisplay: rows of the district CSV
  congressionalDataLoading,
  now,                    \* the clock read by new Date(): [y, m, d], at noon
  statesGeoJson,          \* DisasterMap: Null or the loaded geometry
  fetches,                \* how many times each resource has been requested
  logged,                 \* what console.error has been given
  requests,               \* each resource's fetch: "none", "pending", "fulfilled", "rejected"
  page,                   \* the route on screen: "dashboard" or "fact-sheet"
  exported,               \* <<>> or the one row list handed to Papa.unparse
  currentPage,            \* dashboard: the page of the record table on screen
  itemsPerPage,           \* dashboard: 10, 25, 50 or 100
  sortColumn,             \* dashboard: the column the record table is sorted by
  downloads,              \* FactSheetDisplay: where each call of handleDownload stands
  toasts,                 \* the calls whose 'Generating PDF...' toast is in the document
  buttonsHidden           \* the fact sheet's buttons have display 'none'

vars == <<data, loading, tz, dateRange, selectedStates, includesTerritories,
          selectedDisasterTypes, selectedFundingTypes, stateData,
          dynamicThresholds, rawValue, coerced, applied, selectedEvent,
          selectedEvents, sortField, sortDirection, congressionalData,
          congressionalDataLoading, now, statesGeoJson, fetches, logged, requests,
          page, exported, currentPage, itemsPerPage, sortColumn, downloads,
          toasts, buttonsHidden>>

criteria == <<dateRange, selectedStates, includesTerritories,
              selectedDisasterTypes, selectedFundingTypes>>
study == <<rawValue, coerced, applied>>
sheet == <<selectedEvent, selectedEvents, sortField, sortDirection,
           congressionalData, congressionalDataLoading, now>>
resources == <<statesGeoJson, fetches, logged, requests, page>>
paging == <<itemsPerPage, sortColumn>>
capture == <<downloads, toasts, buttonsHidden>>

\* the clock of the sessions under study
Today == [y |-> 2025, m |-> 6, d |-> 15]

Resources == {"csv", "geojson", "districts"}

\* the fact sheet, the map geometry and the export before anything happens
IdleSheet ==
  /\ selectedEvent = Null
  /\ selectedEvents = <<>>
  /\ sortField = "funding"
  /\ sortDirection = "desc"
  /\ congressionalData = <<>>
  /\ congressionalDataLoading = TRUE
  /\ now = Today

IdleResources ==
  /\ statesGeoJson = Null
  /\ fetches = [r \in Resources |-> IF r = "csv" THEN 1 ELSE 0]
  /\ logged = {}
  /\ requests = [r \in Resources |-> IF r = "csv" THEN "pending" ELSE "none"]
  /\ exported = <<>>

\* how many calls of handleDownload are followed
DownloadCalls == 1..MaxDownloads

\* the record table and the PDF capture before anything happens
IdleControls ==
  /\ currentPage = 1
  /\ itemsPerPage = 10
  /\ sortColumn = "incident_start"
  /\ downloads = [c \in DownloadCalls |-> "idle"]
  /\ toasts = {}
  /\ buttonsHidden = FALSE

filteredData ==
  IF loading THEN <<>>
  ELSE Filter(data, dateRange, selectedStates, includesTerritories,
              selectedDisasterTypes, selectedFundingTypes, tz)

\* _.uniq(data.map(row => row.incident_type)).filter(Boolean)
uniqueDisasterTypes(rows) == {rows[i].incident_type : i \in 1..Len(rows)} \ {""}

\* what DisasterMap aggregates from its props
mapStateData ==
  Bind(filteredData, LAMBDA fd : getStateData(fd, stateNames, selectedFundingTypes))

\* ----------------------------------------------------------------- actions
\* every render of the loaded dashboard re-runs the map's threshold effect
MapEffect ==
  \E sd \in {mapStateData'} :
    /\ stateData' = sd
    /\ dynamicThresholds' = uniqueThresholds(sd)

Init ==
  /\ IdleControls
  /\ data = <<>>
  /\ loading = TRUE
  /\ tz \in TimezoneOffsets
  /\ dateRange = InitialDateRange
  /\ selectedStates = {}
  /\ includesTerritories = FALSE
  /\ selectedDisasterTypes = {}
  /\ selectedFundingTypes = FundingTypes
  /\ stateData = EmptyStateData
  /\ dynamicThresholds = InitialThresholds
  /\ rawValue = Null
  /\ coerced = <<>>
  /\ applied = FALSE
  /\ IdleSheet
  /\ IdleResources
  /\ page = "dashboard"

\* the CSV request settles and the dashboard leaves "Loading data...":
\* DisasterMap mounts and requests its geometry once
MountMap(csvOutcome) ==
  /\ fetches' = [fetches EXCEPT !["geojson"] = @ + 1]
  /\ requests' = [requests EXCEPT !["csv"] = csvOutcome, !["geojson"] = "pending"]

\* Papa.parse complete: setData, setLoading(false), then the effect that
\* selects every disaster type
LoadComplete(rows) ==
  /\ loading
  /\ data' = rows
  /\ loading' = FALSE
  /\ selectedDisasterTypes' = uniqueDisasterTypes(rows)
  /\ MountMap("fulfilled")
  /\ currentPage' = 1
  /\ UNCHANGED <<paging, capture, tz, dateRange, selectedStates, includesTerritories,
                 selectedFundingTypes, study, sheet, statesGeoJson, logged, page, exported>>
  /\ MapEffect

\* the fetch rejects: catch logs and clears the loading flag
LoadFailed ==
  /\ loading
  /\ loading' = FALSE
  /\ selectedDisasterTypes' = uniqueDisasterTypes(data)
  /\ logged' = logged \cup {"Error loading data:"}
  /\ MountMap("rejected")
  /\ currentPage' = 1
  /\ UNCHANGED <<paging, capture, data, tz, dateRange, selectedStates, includesTerritories,
                 selectedFundingTypes, study, sheet, statesGeoJson, page, exported>>
  /\ MapEffect

ToggleState(abbr) ==
  /\ ~loading
  /\ selectedStates' = IF abbr \in selectedStates
                         THEN selectedStates \ {abbr} ELSE selectedStates \cup {abbr}
  /\ currentPage' = 1
  /\ UNCHANGED <<paging, capture, data, loading, tz, dateRange, includesTerritories,
                 selectedDisasterTypes, selectedFundingTypes, study, sheet, resources, exported>>
  /\ MapEffect

SelectAllStates ==
  /\ ~loading
  /\ selectedStates' = DOMAIN stateNames
  /\ includesTerritories' = TRUE
  /\ currentPage' = 1
  /\ UNCHANGED <<paging, capture, data, loading, tz, dateRange,
                 selectedDisasterTypes, selectedFundingTypes, study, sheet, resources, exported>>
  /\ MapEffect

DeselectAllStates ==
  /\ ~loading
  /\ selectedStates' = {}
  /\ includesTerritories' = FALSE
  /\ currentPage' = 1
  /\ UNCHANGED <<paging, capture, data, loading, tz, dateRange,
                 selectedDisasterTypes, selectedFundingTypes, study, sheet, resources, exported>>
  /\ MapEffect

ToggleTerritories ==
  /\ ~loading
  /\ includesTerritories' = ~includesTerritories
  /\ UNCHANGED <<currentPage, paging, capture, data, loading, tz, dateRange, selectedStates,
                 selectedDisasterTypes, selectedFundingTypes, study, sheet, resources, exported>>
  /\ MapEffect

ToggleDisasterType(type) ==
  /\ ~loading
  /\ type \in uniqueDisasterTypes(data)
  /\ selectedDisasterTypes' = IF type \in selectedDisasterTypes
                                THEN selectedDisasterTypes \ {type}
                                ELSE selectedDisasterTypes \cup {type}
  /\ currentPage' = 1
  /\ UNCHANGED <<paging, capture, data, loading, tz, dateRange, selectedStates, includesTerritories,
                 selectedFundingTypes, study, sheet, resources, exported>>
  /\ MapEffect

SelectAllDisasterTypes ==
  /\ ~loading
  /\ selectedDisasterTypes' = uniqueDisasterTypes(data)
  /\ currentPage' = 1
  /\ UNCHANGED <<paging, capture, data, loading, tz, dateRange, selectedStates, includesTerritories,
                 selectedFundingTypes, study, sheet, resources, exported>>
  /\ MapEffect

DeselectAllDisasterTypes ==
  /\ ~loading
  /\ selectedDisasterTypes' = {}
  /\ currentPage' = 1
  /\ UNCHANGED <<paging, capture, data, loading, tz, dateRange, selectedStates, includesTerritories,
                 selectedFundingTypes, study, sheet, resources, exported>>
  /\ MapEffect

ToggleFundingType(key) ==
  /\ ~loading
  /\ selectedFundingTypes' = IF key \in selectedFundingTypes
                               THEN selectedFundingTypes \ {key}
                               ELSE selectedFundingTypes \cup {key}
  /\ currentPage' = 1
  /\ UNCHANGED <<paging, capture, data, loading, tz, dateRange, selectedStates, includesTerritories,
                 selectedDisasterTypes, study, sheet, resources, exported>>
  /\ MapEffect

SelectAllFundingTypes ==
  /\ ~loading
  /\ selectedFundingTypes' = FundingTypes
  /\ currentPage' = 1
  /\ UNCHANGED <<paging, capture, data, loading, tz, dateRange, selectedStates, includesTerritories,
                 selectedDisasterTypes, study, sheet, resources, exported>>
  /\ MapEffect

DeselectAllFundingTypes ==
  /\ ~loading
  /\ selectedFundingTypes' = {}
  /\ currentPage' = 1
  /\ UNCHANGED <<paging, capture, data, loading, tz, dateRange, selectedStates, includesTerritories,
                 selectedDisasterTypes, study, sheet, resources, exported>>
  /\ MapEffect

\* variant: Apply takes the range without comparing its ends
handleManualDateChangeUnchecked(startYear, startMonth, endYear, endMonth) ==
  /\ ~loading
  /\ dateRange' = [startYear |-> startYear, startMonth |-> startMonth,
                   endYear |-> endYear, endMonth |-> endMonth]
  /\ currentPage' = 1
  /\ UNCHANGED <<paging, capture, data, loading, tz, selectedStates, includesTerritories,
                 selectedDisasterTypes, selectedFundingTypes, study, sheet, resources, exported>>
  /\ MapEffect

\* Apply in the time-frame selector: the range is taken only when the
\* start month is not after the end month
handleManualDateChange(startYear, startMonth, endYear, endMonth) ==
  /\ ~loading
  /\ IF MakeDate(startYear, startMonth - 1, 1) <= MakeDate(endYear, endMonth - 1, 1)
       THEN /\ dateRange' = [startYear |-> startYear, startMonth |-> startMonth,
                             endYear |-> endYear, endMonth |-> endMonth]
            /\ currentPage' = 1
       ELSE UNCHANGED <<dateRange, currentPage>>
  /\ UNCHANGED <<paging, capture, data, loading, tz, selectedStates, includesTerritories,
                 selectedDisasterTypes, selectedFundingTypes, study, sheet, resources, exported>>
  /\ MapEffect

Next ==
  \/ \E rows \in Datasets : LoadComplete(rows)
  \/ LoadFailed
  \/ \E abbr \in DOMAIN stateNames : ToggleState(abbr)
  \/ SelectAllStates
  \/ DeselectAllStates
  \/ ToggleTerritories
  \/ \E type \in uniqueDisasterTypes(data) : ToggleDisasterType(type)
  \/ SelectAllDisasterTypes
  \/ DeselectAllDisasterTypes
  \/ \E key \in FundingTypes : ToggleFundingType(key)
  \/ SelectAllFundingTypes
  \/ DeselectAllFundingTypes
  \/ \E sy \in YearChoices, sm \in MonthChoices, ey \in YearChoices, em \in MonthChoices :
        handleManualDateChange(sy, sm, ey, em)

Spec == Init /\ [][Next]_vars

\* ------------------------------------------------ the coercion on its own
Strings == UNION {[1..n -> Chars] : n \in 0..MaxStrLen}

\* what a parsed CSV cell can hold
RawValues ==
  {Null, Undefined} \cup {Num(n) : n \in (0 - MaxAmount)..MaxAmount}
  \cup {Str(s) : s \in Strings}

InitCoerce ==
  /\ IdleControls
  /\ data = <<>>
  /\ loading = TRUE
  /\ tz = 0
  /\ dateRange = InitialDateRange
  /\ selectedStates = {}
  /\ includesTerritories = FALSE
  /\ selectedDisasterTypes = {}
  /\ selectedFundingTypes = FundingTypes
  /\ stateData = EmptyStateData
  /\ dynamicThresholds = InitialThresholds
  /\ rawValue \in RawValues
  /\ coerced = <<>>
  /\ applied = FALSE
  /\ IdleSheet
  /\ IdleResources
  /\ page = "dashboard"

Coerce ==
  /\ ~applied
  /\ coerced' = <<coerceFunding(rawValue)>>
  /\ applied' = TRUE
  /\ UNCHANGED <<currentPage, paging, capture, data, loading, tz, criteria, stateData, dynamicThresholds, rawValue,
                 sheet, resources, exported>>

NextCoerce == Coerce

SpecCoerce == InitCoerce /\ [][NextCoerce]_vars

\* ------------------------------------------- the threshold effect on its own
AggregateKeys == {"TX", "CA"}

Aggregate(f) == [count |-> 1, funding |-> f, types |-> EmptyStateData,
                 typesFunding |-> EmptyStateData]

\* aggregate funding values 0, 500, 2000 and 1000000
ExampleAggregates ==
  ("AL" :> Aggregate(0)) @@ ("CA" :> Aggregate(500))
  @@ ("FL" :> Aggregate(2000)) @@ ("TX" :> Aggregate(1000000))

\* the aggregates the map may hold: any funding from -1 to MaxFunding for
\* any of the keys, and the example
AggregateInputs ==
  {ExampleAggregates} \cup
  UNION {[K -> {Aggregate(f) : f \in (0 - 1)..MaxFunding}] : K \in SUBSET AggregateKeys}

InitThresholds ==
  /\ IdleControls
  /\ data = <<>>
  /\ loading = FALSE
  /\ tz = 0
  /\ dateRange = InitialDateRange
  /\ selectedStates = {}
  /\ includesTerritories = FALSE
  /\ selectedDisasterTypes = {}
  /\ selectedFundingTypes = FundingTypes
  /\ stateData \in AggregateInputs
  /\ dynamicThresholds = InitialThresholds
  /\ rawValue = Null
  /\ coerced = <<>>
  /\ applied = FALSE
  /\ IdleSheet
  /\ IdleResources
  /\ page = "dashboard"

\* the effect of DisasterMap on a change of filteredData
ThresholdEffect ==
  /\ ~applied
  /\ dynamicThresholds' = uniqueThresholds(stateData)
  /\ applied' = TRUE
  /\ UNCHANGED <<currentPage, paging, capture, data, loading, tz, criteria, stateData, rawValue, coerced,
                 sheet, resources, exported>>

NextThresholds == ThresholdEffect

SpecThresholds == InitThresholds /\ [][NextThresholds]_vars

\* ---------------------------------------------------------- the fact sheet
\* one row of the disaster CSV as FactSheetCreator parses it; the SBA column
\* is present and empty
Event(num, start, type, state, ihp, pa, cdbg, applicants, award) ==
  [incident_number |-> num, incident_start |-> start, incident_type |-> type,
   state |-> state, ihp_total |-> ihp, pa_total |-> pa,
   cdbg_dr_allocation |-> cdbg, sba_total_approved_loan_amount |-> Null,
   ihp_applicants |-> applicants, ihp_average_award |-> award]

\* a JavaScript value in a condition
Truthy(v) ==
  \/ v.type = "number" /\ v.num # 0
  \/ v.type = "string" /\ v.str # <<>>

\* type.toLowerCase().includes(word), over the incident types of the model
Includes(type, word) ==
  \/ type = "Hurricane" /\ word = "hurricane"
  \/ type = "Typhoon" /\ word = "typhoon"
  \/ type = "Flood" /\ word = "flood"
  \/ type = "Fire" /\ word = "fire"
  \/ type = "Tornado" /\ word = "tornado"

\* Math.round(a / b) for a >= 0 and b > 0: halves round up
RoundDiv(a, b) == (2 * a + b) \div (2 * b)

\* the grant size FactSheetCreator assumes for an incident type
avgGrantSize(type) ==
  IF type = "" THEN 4000
  ELSE IF Includes(type, "hurricane") \/ Includes(type, "typhoon") THEN 6000
  ELSE IF Includes(type, "flood") THEN 5000
  ELSE IF Includes(type, "fire") \/ Includes(type, "wildfire") THEN 7000
  ELSE IF Includes(type, "tornado") THEN 4500
  ELSE 4000

\* the map step of the creator's load: numeric funding, and an applicant
\* count estimated from the incident type when the row has none
processItem(item) ==
  LET ihpTotal == coerceFunding(item.ihp_total).v
      ihpApplicants ==
        IF ~Truthy(item.ihp_applicants) /\ ihpTotal > 0
          THEN Num(RoundDiv(ihpTotal, avgGrantSize(item.incident_type)))
          ELSE item.ihp_applicants
  IN  [item EXCEPT !.ihp_applicants = ihpApplicants,
                   !.ihp_total = Num(ihpTotal),
                   !.pa_total = Num(coerceFunding(item.pa_total).v),
                   !.cdbg_dr_allocation = Num(coerceFunding(item.cdbg_dr_allocation).v)]

\* rows without an incident number or a state are dropped, the rest mapped
processedData(rows) ==
  LET kept == SelectSeq(rows, LAMBDA item : item.incident_number # 0 /\ item.state # "")
  IN  [i \in 1..Len(kept) |-> processItem(kept[i])]

\* FEMA's national average grant by incident type, as FactSheetDisplay has it
nationalAveragesByType(type) ==
  IF type = "" THEN 4103
  ELSE IF Includes(type, "hurricane") \/ Includes(type, "typhoon") THEN 5372
  ELSE IF Includes(type, "flood") THEN 4467
  ELSE IF Includes(type, "fire") \/ Includes(type, "wildfire") THEN 6198
  ELSE IF Includes(type, "tornado") THEN 3975
  ELSE 4103

\* x || 0 for a cell that holds a number or nothing
NumOrZero(v) == IF v.type = "number" THEN v.num ELSE 0

\* a quotient kept exact
Ratio(num, den) == [num |-> num, den |-> den]

\* average assistance and applicant count of the event on display
eventStats(primaryEvent) ==
  LET totalIhpAmount == coerceFunding(primaryEvent.ihp_total).v
      applicants == NumOrZero(primaryEvent.ihp_applicants)
      award == primaryEvent.ihp_average_award
  IN  IF Truthy(award) /\ award.type = "number" /\ award.num > 0
        THEN [avgAssistance |-> Ratio(award.num, 1),
              totalApplicants |->
                IF applicants = 0 /\ totalIhpAmount > 0
                  THEN RoundDiv(totalIhpAmount, award.num) ELSE applicants]
      ELSE IF applicants > 0 /\ totalIhpAmount > 0
        THEN [avgAssistance |-> Ratio(totalIhpAmount, applicants),
              totalApplicants |-> applicants]
      ELSE IF applicants = 0 /\ totalIhpAmount > 0
        THEN [avgAssistance |-> Ratio(nationalAveragesByType(primaryEvent.incident_type), 1),
              totalApplicants |->
                RoundDiv(totalIhpAmount, nationalAveragesByType(primaryEvent.incident_type))]
      ELSE [avgAssistance |-> Ratio(0, 1), totalApplicants |-> applicants]

\* the creator's state-name table, cut down; unlike the dashboard's it holds
\* the territories
creatorStateNames ==
  ("TX" :> "Texas") @@ ("LA" :> "Louisiana") @@ ("FL" :> "Florida")
  @@ ("GA" :> "Georgia") @@ ("OK" :> "Oklahoma") @@ ("PR" :> "Puerto Rico")

\* the rows of the disaster CSV under study, by position.
\*  1..5   one event each for Oklahoma, Florida, Georgia and Puerto Rico
\*         (recent, recent, 15 years old, undated) and a row with no
\*         incident number, which the creator drops;
\*  6..18  Louisiana: two recent events and eleven funded ones that are older
\*         than any lookback window or undated;
\*  19..   Texas: events of 2025, 2024, 2023, 2013, 2008 and 2003, then events
\*         spread over 2016..2024, some of them without funding
FactEvent(i) ==
  IF i = 1 THEN Event(1, UsDate(2024, 5, 1), "Tornado", "OK", Num(500000), Null, Null, Null, Num(5000))
  ELSE IF i = 2 THEN Event(2, UsDate(2023, 8, 1), "Flood", "FL", Num(4000000), Num(6000000), Null, Num(800), Null)
  ELSE IF i = 3 THEN Event(3, UsDate(2010, 8, 1), "Hurricane", "GA", Num(10000000), Null, Null, Null, Null)
  ELSE IF i = 4 THEN Event(4, NoDate, "Hurricane", "PR", Num(10000000), Null, Null, Num(0), Num(0))
  ELSE IF i = 5 THEN Event(0, UsDate(2024, 1, 1), "Flood", "TX", Num(900), Null, Null, Null, Null)
  ELSE IF i = 6 THEN Event(6, UsDate(2024, 2, 1), "Flood", "LA", Num(50), Null, Null, Null, Null)
  ELSE IF i = 7 THEN Event(7, UsDate(2023, 2, 1), "Fire", "LA", Num(0), Null, Null, Null, Null)
  ELSE IF i = 8 THEN Event(8, NoDate, "Flood", "LA", Num(5000), Null, Null, Null, Null)
  ELSE IF i <= 18 THEN Event(i, UsDate(2000, 1 + (i % 12), 1), "Hurricane", "LA",
                             Num(1000 * (((i * 7) % 10) + 1)), Null, Null, Null, Null)
  ELSE IF i = 19 THEN Event(i, UsDate(2025, 3, 1), "Flood", "TX", Num(100), Null, Null, Null, Null)
  ELSE IF i = 20 THEN Event(i, UsDate(2024, 3, 1), "", "TX", Str(<<"7", "0">>), Num(230), Null, Null, Null)
  ELSE IF i = 21 THEN Event(i, UsDate(2023, 3, 1), "Typhoon", "TX", Num(200), Null, Null, Num(3), Null)
  ELSE IF i = 22 THEN Event(i, UsDate(2013, 9, 1), "Fire", "TX", Num(0), Num(400), Null, Null, Null)
  ELSE IF i = 23 THEN Event(i, UsDate(2008, 3, 1), "Flood", "TX", Num(50), Null, Num(500), Null, Null)
  ELSE IF i = 24 THEN Event(i, UsDate(2003, 3, 1), "Flood", "TX", Num(700), Null, Null, Null, Null)
  ELSE Event(i, UsDate(2016 + (i % 9), 1 + (i % 12), 1), "Flood", "TX",
             Num(1000 * ((i * 37) % 11)), Num(500 * (i % 3)), Null, Null, Null)

\* the disaster CSVs under study: the first n rows
FactDatasets == {[i \in 1..n |-> FactEvent(i)] : n \in 0..MaxEvents}

\* one row of the district CSV
DistrictRow(i) ==
  [state_name |-> IF i % 5 = 0 THEN "Louisiana" ELSE IF i % 7 = 0 THEN "TX" ELSE "Texas",
   district_number |-> i,
   total_funding |-> Num(100 * ((i * 7) % 6)),
   total_applicants |-> IF i % 4 = 0 THEN Null ELSE Num((i * 5) % 7)]

\* the district CSVs under study: an empty file and one of MaxDistricts rows
DistrictDatasets == {[i \in 1..n |-> DistrictRow(i)] : n \in {0, MaxDistricts}}

\* the dashboard before its CSV arrives
IdleDashboard ==
  /\ data = <<>>
  /\ loading = TRUE
  /\ tz = 0
  /\ dateRange = InitialDateRange
  /\ selectedStates = {}
  /\ includesTerritories = FALSE
  /\ selectedDisasterTypes = {}
  /\ selectedFundingTypes = FundingTypes
  /\ stateData = EmptyStateData
  /\ dynamicThresholds = InitialThresholds

IdleStudy ==
  /\ rawValue = Null
  /\ coerced = <<>>
  /\ applied = FALSE

dashboard == <<tz, criteria, stateData, dynamicThresholds>>

\* FactSheetCreator: data and loading are the creator's own state here
InitFactSheet ==
  /\ IdleControls
  /\ IdleDashboard
  /\ IdleStudy
  /\ IdleSheet
  /\ IdleResources
  /\ page = "fact-sheet"

\* Papa.parse complete in the creator
CreatorLoadComplete(rows) ==
  /\ loading
  /\ data' = processedData(rows)
  /\ loading' = FALSE
  /\ requests' = [requests EXCEPT !["csv"] = "fulfilled"]
  /\ UNCHANGED <<currentPage, paging, capture, dashboard, study, sheet, statesGeoJson, fetches, logged, page, exported>>

\* the creator's fetch rejects
CreatorLoadFailed ==
  /\ loading
  /\ loading' = FALSE
  /\ logged' = logged \cup {"Error loading data:"}
  /\ requests' = [requests EXCEPT !["csv"] = "rejected"]
  /\ UNCHANGED <<currentPage, paging, capture, data, dashboard, study, sheet, statesGeoJson, fetches, page, exported>>

\* a search result is picked and "display" pressed: the creator renders
\* FactSheetDisplay with event = selectedEvent, allEvents = data and
\* selectedEvents = [selectedEvent]; the first render mounts the component,
\* whose effect requests the district CSV once
displaySelectedEvents(selectedResult) ==
  /\ ~loading
  /\ selectedEvent' = selectedResult
  /\ selectedEvents' = <<selectedResult>>
  /\ IF selectedEvent = Null
       THEN /\ fetches' = [fetches EXCEPT !["districts"] = @ + 1]
            /\ requests' = [requests EXCEPT !["districts"] = "pending"]
       ELSE UNCHANGED <<fetches, requests>>
  /\ UNCHANGED <<currentPage, paging, capture, data, loading, dashboard, study, sortField, sortDirection,
                 congressionalData, congressionalDataLoading, now, statesGeoJson,
                 logged, page, exported>>

toggleSort(field) ==
  /\ selectedEvent # Null
  /\ IF sortField = field
       THEN /\ sortDirection' = (IF sortDirection = "desc" THEN "asc" ELSE "desc")
            /\ sortField' = sortField
       ELSE /\ sortField' = field
            /\ sortDirection' = "desc"
  /\ UNCHANGED <<currentPage, paging, capture, data, loading, dashboard, study, selectedEvent, selectedEvents,
                 congressionalData, congressionalDataLoading, now, resources, exported>>

\* Papa.parse complete for the district CSV
CongressionalLoadComplete(rows) ==
  /\ selectedEvent # Null
  /\ congressionalDataLoading
  /\ congressionalData' =
       SelectSeq(rows, LAMBDA item : item.state_name # "" /\ Truthy(item.total_funding))
  /\ congressionalDataLoading' = FALSE
  /\ requests' = [requests EXCEPT !["districts"] = "fulfilled"]
  /\ UNCHANGED <<currentPage, paging, capture, data, loading, dashboard, study, selectedEvent, selectedEvents,
                 sortField, sortDirection, now, statesGeoJson, fetches, logged, page,
                 exported>>

\* variant: a failed district fetch is issued again
CongressionalLoadFailedRetries ==
  /\ selectedEvent # Null
  /\ congressionalDataLoading
  /\ congressionalDataLoading' = FALSE
  /\ logged' = logged \cup {"Error loading congressional district data:"}
  /\ requests' = [requests EXCEPT !["districts"] = "rejected"]
  /\ fetches' = [fetches EXCEPT !["districts"] = @ + 1]
  /\ UNCHANGED <<currentPage, paging, capture, data, loading, dashboard, study, selectedEvent, selectedEvents,
                 sortField, sortDirection, congressionalData, now, statesGeoJson,
                 page, exported>>

\* the district fetch rejects
CongressionalLoadFailed ==
  /\ selectedEvent # Null
  /\ congressionalDataLoading
  /\ congressionalDataLoading' = FALSE
  /\ logged' = logged \cup {"Error loading congressional district data:"}
  /\ requests' = [requests EXCEPT !["districts"] = "rejected"]
  /\ UNCHANGED <<currentPage, paging, capture, data, loading, dashboard, study, selectedEvent, selectedEvents,
                 sortField, sortDirection, congressionalData, now, statesGeoJson,
                 fetches, page, exported>>

NextFactSheet ==
  \/ \E rows \in FactDatasets : CreatorLoadComplete(rows)
  \/ CreatorLoadFailed
  \/ \E i \in 1..Len(data) : displaySelectedEvents(data[i])
  \/ \E field \in {"funding", "applicants"} : toggleSort(field)
  \/ \E rows \in DistrictDatasets : CongressionalLoadComplete(rows)
  \/ CongressionalLoadFailed

SpecFactSheet == InitFactSheet /\ [][NextFactSheet]_vars

\* ------------------------------------------- the combined totals on their own
\* Number(v), the conversion behind v > 0 and v / w: a string converts only
\* as a whole
ToNumber(v) ==
  IF v.type = "number" THEN Fin(v.num)
  ELSE IF v.type = "null" THEN Fin(0)
  ELSE IF v.type = "undefined" THEN [nan |-> TRUE, v |-> 0]
  ELSE LET t == SkipSpaces(v.str)
           neg == t # <<>> /\ Head(t) = "-"
           u == IF neg THEN Tail(t) ELSE t
           run == DigitRun(u, 0, 0)
       IN  IF t = <<>> THEN Fin(0)
           ELSE IF run.n = 0 \/ run.n # Len(u) THEN [nan |-> TRUE, v |-> 0]
           ELSE Fin(IF neg THEN 0 - run.v ELSE run.v)

\* the funding of one event by source, SBA loans counted on request only
calculateEventTotalFunding(item, useSBAData) ==
  LET ihpTotal == coerceFunding(item.ihp_total).v
      paTotal == coerceFunding(item.pa_total).v
      cdbgDrAllocation == coerceFunding(item.cdbg_dr_allocation).v
      sbaTotal == coerceFunding(item.sba_total_approved_loan_amount).v
  IN  [ihpTotal |-> ihpTotal, paTotal |-> paTotal,
       cdbgDrAllocation |-> cdbgDrAllocation, sbaTotal |-> sbaTotal,
       totalFunding |-> ihpTotal + paTotal + cdbgDrAllocation
                        + (IF useSBAData THEN sbaTotal ELSE 0)]

\* the grant size the combined totals assume for an incident type
estimatedAverageGrant(type) ==
  IF type = "" THEN 4103
  ELSE IF Includes(type, "hurricane") \/ Includes(type, "typhoon") THEN 5372
  ELSE IF Includes(type, "flood") THEN 4467
  ELSE IF Includes(type, "fire") \/ Includes(type, "wildfire") THEN 6198
  ELSE IF Includes(type, "tornado") THEN 3975
  ELSE 4103

\* the applicant count the combined totals give one selected event
eventApplicants(event) ==
  LET applicants == NumOrZero(event.ihp_applicants)
      total == ToNumber(event.ihp_total)
      award == event.ihp_average_award
  IN  IF applicants = 0 /\ GtZero(total)
        THEN IF Truthy(award) /\ award.type = "number" /\ award.num > 0
               THEN RoundDiv(total.v, award.num)
               ELSE RoundDiv(total.v, estimatedAverageGrant(event.incident_type))
        ELSE applicants

RECURSIVE SumSeq(_)
SumSeq(s) == IF s = <<>> THEN 0 ELSE Head(s) + SumSeq(Tail(s))

\* variant: one estimate from the combined IHP total for the events that
\* lack a count
combinedFundingStatsFromTotal(events, useSBAData) ==
  IF Len(events) <= 1 THEN Null
  ELSE LET counted == [i \in 1..Len(events) |-> NumOrZero(events[i].ihp_applicants)]
           missing == [i \in 1..Len(events) |->
                         IF counted[i] = 0 THEN coerceFunding(events[i].ihp_total).v ELSE 0]
       IN  [totalsByEvent |-> counted,
            grandTotals |->
              [ihpTotal |-> SumSeq([i \in 1..Len(events) |-> coerceFunding(events[i].ihp_total).v]),
               totalFunding |-> 0,
               totalApplicants |->
                 SumSeq(counted) + RoundDiv(SumSeq(missing), estimatedAverageGrant(""))]]

\* null for fewer than two events; otherwise the per-event applicant counts
\* and the grand totals
combinedFundingStats(events, useSBAData) ==
  IF Len(events) <= 1 THEN Null
  ELSE LET funding == [i \in 1..Len(events) |->
                         calculateEventTotalFunding(events[i], useSBAData)]
           applicants == [i \in 1..Len(events) |-> eventApplicants(events[i])]
       IN  [totalsByEvent |-> applicants,
            grandTotals |->
              [ihpTotal |-> SumSeq([i \in 1..Len(events) |-> funding[i].ihpTotal]),
               totalFunding |-> SumSeq([i \in 1..Len(events) |-> funding[i].totalFunding]),
               totalApplicants |-> SumSeq(applicants)]]

\* events a selection may hold: IHP total none or 500000, applicant count
\* missing, zero or 40, average award missing, zero or 5000
SelectableEvents ==
  {Event(1, UsDate(2024, 5, 1), type, "TX", Num(ihp), Num(100), Null, applicants, award) :
     type \in {"", "Tornado"}, ihp \in {0, 500000},
     applicants \in {Null, Num(0), Num(40)}, award \in {Null, Num(0), Num(5000)}}

Selections == UNION {[1..n -> SelectableEvents] : n \in 0..MaxSelected}

InitCombined ==
  /\ IdleControls
  /\ IdleDashboard
  /\ IdleStudy
  /\ selectedEvents \in Selections
  /\ selectedEvent = (IF selectedEvents = <<>> THEN Null ELSE selectedEvents[1])
  /\ sortField = "funding"
  /\ sortDirection = "desc"
  /\ congressionalData = <<>>
  /\ congressionalDataLoading = TRUE
  /\ now = Today
  /\ IdleResources
  /\ page = "fact-sheet"

\* FactSheetDisplay renders its selection
RenderCombined ==
  /\ ~applied
  /\ coerced' = <<combinedFundingStats(selectedEvents, FALSE)>>
  /\ applied' = TRUE
  /\ UNCHANGED <<currentPage, paging, capture, data, loading, dashboard, rawValue, sheet, resources, exported>>

NextCombined == RenderCombined

SpecCombined == InitCombined /\ [][NextCombined]_vars

\* ------------------------------------------------- regional spend, top events
\* allEvents.filter(item => item.state === event.state)
stateEvents(allEvents, event) ==
  SelectSeq(allEvents, LAMBDA item : item.state = event.state)

\* item.incident_start is a non-empty string
HasStart(item) == item.incident_start.kind # "missing"

\* the clock set back n years by setFullYear, as an instant in hours
YearsAgo(clock, n) == DayNumber(clock.y - n, clock.m, clock.d) * 24 + 12

\* new Date(item.incident_start) >= cutoff; false for Invalid Date
StartedSince(item, cutoff, z) ==
  /\ HasStart(item)
  /\ NewDate(item.incident_start, z).valid
  /\ NewDate(item.incident_start, z).t >= cutoff

\* variant: the sum divided by the years the region's dates span
federalSpendStatsBySpan(events, useSBAData, clock, z) ==
  LET years == {events[i].incident_start.y : i \in {j \in 1..Len(events) : HasStart(events[j])}}
      filteredEvents == SelectSeq(events, LAMBDA item : StartedSince(item, YearsAgo(clock, 10), z))
      totalFunding ==
        SumSeq([i \in 1..Len(filteredEvents) |->
                  calculateEventTotalFunding(filteredEvents[i], useSBAData).totalFunding])
  IN  IF years = {} THEN [totalFunding |-> 0, annualAverage |-> Ratio(0, 1), yearsSpan |-> 0]
      ELSE [totalFunding |-> totalFunding,
            annualAverage |-> Ratio(totalFunding, SetMax(years) + SetMax({0 - y : y \in years}) + 1),
            yearsSpan |-> 10]

\* total and annual average of the region's federal funding: zeros when no
\* event has a start date, else the events started in the last ten years,
\* summed and divided by 10
federalSpendStats(events, useSBAData, clock, z) ==
  LET dates == SelectSeq(events, HasStart)
      tenYearsAgo == YearsAgo(clock, 10)
      filteredEvents == SelectSeq(events, LAMBDA item : StartedSince(item, tenYearsAgo, z))
      yearsSpan == 10
      totalFunding ==
        SumSeq([i \in 1..Len(filteredEvents) |->
                  calculateEventTotalFunding(filteredEvents[i], useSBAData).totalFunding])
  IN  IF Len(dates) = 0
        THEN [totalFunding |-> 0, annualAverage |-> Ratio(0, 1), yearsSpan |-> 0]
        ELSE [totalFunding |-> totalFunding,
              annualAverage |-> Ratio(totalFunding, yearsSpan),
              yearsSpan |-> yearsSpan]

\* what the fact sheet on display shows as regional spend
shownSpend == federalSpendStats(stateEvents(data, selectedEvent), FALSE, now, tz)

\* getFullYear of new Date(s): a date-only ISO string is UTC midnight, which
\* west of Greenwich is still the evening before
FullYear(s, z) ==
  IF s.kind = "isoDate" /\ z < 0 /\ s.m = 1 /\ s.d = 1 THEN s.y - 1 ELSE s.y

\* [...seq].sort((a, b) => keys[b] - keys[a]): descending, equal keys keep
\* their order
StableDesc(seq, keys) ==
  Bind([i \in 1..Len(seq) |->
          1 + Cardinality({j \in 1..Len(seq) :
                             keys[j] > keys[i] \/ (keys[j] = keys[i] /\ j < i)})],
       LAMBDA rank : [p \in 1..Len(seq) |-> seq[CHOOSE i \in 1..Len(seq) : rank[i] = p]])

\* the first n elements
Slice(seq, n) == SubSeq(seq, 1, IF n < Len(seq) THEN n ELSE Len(seq))

\* variant: a fixed ten-year window
yearsToConsiderTen(events, z) == 10

\* the lookback the top events are taken from: 10 years without dated
\* events, else by the years the dates span
yearsToConsider(events, z) ==
  LET years == {FullYear(events[i].incident_start, z) :
                  i \in {j \in 1..Len(events) : HasStart(events[j])}}
  IN  IF years = {} THEN 10
      ELSE LET yearsDiff == SetMax(years) + SetMax({0 - y : y \in years})
           IN  IF yearsDiff >= 20 THEN 20
               ELSE IF yearsDiff >= 15 THEN 15
               ELSE IF yearsDiff > 10 THEN yearsDiff ELSE 10

\* variant: the backfill takes the funded events whether recent or not
candidateEventsRepeats(events, useSBAData, clock, z) ==
  LET funded(item) == calculateEventTotalFunding(item, useSBAData).totalFunding > 0
      cutoffDate == YearsAgo(clock, yearsToConsider(events, z))
      recentEvents == SelectSeq(events, LAMBDA item : StartedSince(item, cutoffDate, z))
      eventsWithNonZeroFunding == SelectSeq(recentEvents, funded)
      others == SelectSeq(events, funded)
      additionalEvents ==
        Slice(StableDesc(others, [i \in 1..Len(others) |->
                 calculateEventTotalFunding(others[i], useSBAData).totalFunding]), 10)
  IN  IF Len(eventsWithNonZeroFunding) < 5 /\ Len(events) > 10
        THEN recentEvents \o additionalEvents
        ELSE recentEvents

\* the events the chart is chosen from: those started inside the lookback
\* window, and, when fewer than 5 of them are funded and the region has more
\* than 10 events, up to 10 more funded ones, largest first
candidateEvents(events, useSBAData, clock, z) ==
  LET funded(item) == calculateEventTotalFunding(item, useSBAData).totalFunding > 0
  IN  Bind(YearsAgo(clock, yearsToConsider(events, z)), LAMBDA cutoffDate :
        Bind(SelectSeq(events, LAMBDA item : StartedSince(item, cutoffDate, z)),
             LAMBDA recentEvents :
          LET eventsWithNonZeroFunding == SelectSeq(recentEvents, funded)
              others == SelectSeq(events, LAMBDA item :
                          /\ \A k \in 1..Len(recentEvents) : recentEvents[k] # item
                          /\ funded(item))
              additionalEvents ==
                Slice(StableDesc(others, [i \in 1..Len(others) |->
                         calculateEventTotalFunding(others[i], useSBAData).totalFunding]), 10)
          IN  IF Len(eventsWithNonZeroFunding) < 5 /\ Len(events) > 10
                THEN recentEvents \o additionalEvents
                ELSE recentEvents))

\* how many of n sorted candidates are kept
displayCount(n) == IF n <= 5 THEN n ELSE IF n <= 15 THEN (IF n < 15 THEN n ELSE 15) ELSE 20

\* one bar group of the chart
chartEntry(item, useSBAData) ==
  LET funding == calculateEventTotalFunding(item, useSBAData)
  IN  [incidentNumber |-> item.incident_number, ihpTotal |-> funding.ihpTotal,
       paTotal |-> funding.paTotal, cdbgDrTotal |-> funding.cdbgDrAllocation,
       sbaTotal |-> funding.sbaTotal, totalFunding |-> funding.totalFunding]

\* variant: the candidates in the order of the CSV
majorStormsDataUnsorted(events, useSBAData, clock, z) ==
  Bind(candidateEvents(events, useSBAData, clock, z), LAMBDA recentEvents :
    [i \in 1..Len(Slice(recentEvents, displayCount(Len(recentEvents)))) |->
       chartEntry(recentEvents[i], useSBAData)])

\* the data handed to the chart of major disasters
majorStormsData(events, useSBAData, clock, z) ==
  Bind(candidateEvents(events, useSBAData, clock, z), LAMBDA recentEvents :
    Bind(StableDesc(recentEvents, [i \in 1..Len(recentEvents) |->
           calculateEventTotalFunding(recentEvents[i], useSBAData).totalFunding]),
         LAMBDA sortedEvents :
      Bind(Slice(sortedEvents, displayCount(Len(sortedEvents))), LAMBDA topEvents :
        [i \in 1..Len(topEvents) |-> chartEntry(topEvents[i], useSBAData)])))

\* DisasterFundingChart: the bars drawn for the data it is given
sortedData(chartData) ==
  Slice(StableDesc(chartData, [i \in 1..Len(chartData) |-> chartData[i].totalFunding]), 10)

\* the candidates, the chart data and the bars of the fact sheet on display
shownCandidates == candidateEvents(stateEvents(data, selectedEvent), FALSE, now, tz)
shownStorms == majorStormsData(stateEvents(data, selectedEvent), FALSE, now, tz)
shownBars == sortedData(shownStorms)

\* ------------------------------------------------------- the district list
\* variant: the direction toggle is ignored
relevantCongressionalDataAlwaysDesc(rows, selection, primaryEvent, names, field, direction) ==
  IF Len(rows) = 0 THEN <<>>
  ELSE LET selectedStateAbbrs == {selection[i].state : i \in 1..Len(selection)}
           filtered == SelectSeq(rows, LAMBDA item : item.state_name \in selectedStateAbbrs
                                   \/ \E a \in selectedStateAbbrs \cap DOMAIN names :
                                        names[a] = item.state_name)
       IN  Slice(StableDesc(filtered, [i \in 1..Len(filtered) |->
                   NumOrZero(IF field = "funding" THEN filtered[i].total_funding
                             ELSE filtered[i].total_applicants)]), 10)

\* the rows of the loaded district data whose state is one of the selection,
\* by full name or by abbreviation, sorted by the chosen column and
\* direction, cut to 10
relevantCongressionalData(rows, selection, primaryEvent, names, field, direction) ==
  IF Len(rows) = 0 THEN <<>>
  ELSE LET selectedStateAbbrs ==
             IF Len(selection) > 0 THEN {selection[i].state : i \in 1..Len(selection)}
             ELSE {primaryEvent.state}
           selectedStateNames ==
             {IF abbr \in DOMAIN names THEN names[abbr] ELSE abbr : abbr \in selectedStateAbbrs}
           filtered == SelectSeq(rows, LAMBDA item :
                          \/ item.state_name \in selectedStateNames
                          \/ item.state_name \in selectedStateAbbrs)
           value(item) == NumOrZero(IF field = "funding" THEN item.total_funding
                                    ELSE item.total_applicants)
           keys == [i \in 1..Len(filtered) |->
                      IF direction = "desc" THEN value(filtered[i])
                      ELSE 0 - value(filtered[i])]
       IN  Slice(StableDesc(filtered, keys), 10)

\* the district table of the fact sheet on display
shownDistricts ==
  relevantCongressionalData(congressionalData, selectedEvents, selectedEvent,
                            creatorStateNames, sortField, sortDirection)

\* ------------------------------------------------- the download on its own
\* a dashboard that has loaded its CSV, with any filter the controls can set
InitDownload ==
  /\ IdleControls
  /\ data \in Datasets
  /\ loading = FALSE
  /\ tz \in TimezoneOffsets
  /\ dateRange = InitialDateRange
  /\ selectedStates \in SUBSET DOMAIN stateNames
  /\ includesTerritories \in BOOLEAN
  /\ selectedDisasterTypes \in SUBSET uniqueDisasterTypes(data)
  /\ selectedFundingTypes \in SUBSET FundingTypes
  /\ stateData = mapStateData
  /\ dynamicThresholds = uniqueThresholds(stateData)
  /\ IdleStudy
  /\ IdleSheet
  /\ statesGeoJson = Null
  /\ fetches = [r \in Resources |-> IF r = "districts" THEN 0 ELSE 1]
  /\ logged = {}
  /\ requests = [r \in Resources |-> IF r = "districts" THEN "none"
                                     ELSE IF r = "csv" THEN "fulfilled" ELSE "pending"]
  /\ page = "dashboard"
  /\ exported = <<>>

\* "Download Selected Data": an alert and nothing else when no row passes or
\* no funding source is selected; otherwise the filtered rows, each with its
\* state code replaced by the name the table has for it, go to Papa.unparse
handleDownload ==
  /\ ~loading
  /\ ~applied
  /\ applied' = TRUE
  /\ \E fd \in {filteredData} :
       IF Len(fd) = 0 \/ selectedFundingTypes = {}
         THEN exported' = exported
         ELSE exported' =
                << [i \in 1..Len(fd) |->
                      [fd[i] EXCEPT !.state = IF fd[i].state \in DOMAIN stateNames
                                                THEN stateNames[fd[i].state]
                                                ELSE fd[i].state]] >>
  /\ UNCHANGED <<currentPage, paging, capture, data, loading, dashboard, rawValue, coerced, sheet, resources>>

NextDownload == handleDownload

SpecDownload == InitDownload /\ [][NextDownload]_vars

\* ------------------------------------------------------ the resource loads
\* the parsed us-states.geojson
GeoJson == [type |-> "object", num |-> 0, str |-> <<>>]

\* DisasterMap: fetch(...).then(r => r.json()).then(setStatesGeoJson)
GeoJsonLoaded ==
  /\ requests["geojson"] = "pending"
  /\ statesGeoJson' = GeoJson
  /\ requests' = [requests EXCEPT !["geojson"] = "fulfilled"]
  /\ UNCHANGED <<currentPage, paging, capture, data, loading, dashboard, study, sheet, fetches, logged, page, exported>>

\* DisasterMap: the fetch or the parse rejects, .catch logs
GeoJsonFailed ==
  /\ requests["geojson"] = "pending"
  /\ logged' = logged \cup {"Error loading GeoJSON:"}
  /\ requests' = [requests EXCEPT !["geojson"] = "rejected"]
  /\ UNCHANGED <<currentPage, paging, capture, data, loading, dashboard, study, sheet, statesGeoJson, fetches, page,
                 exported>>

\* either route, from its mount
InitLoads ==
  /\ IdleControls
  /\ IdleDashboard
  /\ IdleStudy
  /\ IdleSheet
  /\ IdleResources
  /\ page \in {"dashboard", "fact-sheet"}

NextLoads ==
  \/ page = "dashboard" /\ \E rows \in Datasets : LoadComplete(rows)
  \/ page = "dashboard" /\ LoadFailed
  \/ GeoJsonLoaded
  \/ GeoJsonFailed
  \/ page = "dashboard" /\ ToggleTerritories
  \/ page = "dashboard" /\ SelectAllStates
  \/ page = "dashboard" /\ DeselectAllStates
  \/ page = "fact-sheet" /\ \E rows \in FactDatasets : CreatorLoadComplete(rows)
  \/ page = "fact-sheet" /\ CreatorLoadFailed
  \/ page = "fact-sheet" /\ \E i \in 1..Len(data) : displaySelectedEvents(data[i])
  \/ page = "fact-sheet" /\ \E field \in {"funding", "applicants"} : toggleSort(field)
  \/ \E rows \in DistrictDatasets : CongressionalLoadComplete(rows)
  \/ CongressionalLoadFailed

SpecLoads == InitLoads /\ [][NextLoads]_vars

\* ------------------------------------------------------------ fill colour
colors ==
  << "#ffffff", "#eef8ff", "#d0e6f7", "#a6d0f5", "#6baed6", "#4292c6",
     "#2171b5", "#084594", "#041e42" >>

\* the stops of ['interpolate', ['linear'], ['get', 'state_funding'], ...]:
\* thresholds[i] paired with colors[i], the last colour repeated when there
\* are more thresholds than colours
createColorExpression(thresholds) ==
  [i \in 1..Len(thresholds) |->
     [stop  |-> thresholds[i],
      color |-> colors[IF i <= Len(colors) THEN i ELSE Len(colors)]]]

\* the fill colour of a region whose state_funding is the integer funding:
\* the colour of the stop it sits on, the first or last colour outside the
\* stops, and otherwise a blend of the two neighbouring stops' colours
fillColor(expression, funding) ==
  LET atOrBelow(i) == /\ funding >= 0
                      /\ ~DecLess(DecInt(funding), expression[i].stop)
  IN  Bind(Cardinality({i \in DOMAIN expression : atOrBelow(i)}), LAMBDA n :
        IF n = 0
          THEN [from |-> expression[1].color, to |-> expression[1].color]
        ELSE IF n = Len(expression) \/ expression[n].stop = DecInt(funding)
          THEN [from |-> expression[n].color, to |-> expression[n].color]
        ELSE [from |-> expression[n].color, to |-> expression[n + 1].color])

\* ----------------------------------------------------------- class breaks
\* [...a].sort((a, b) => a - b) on numbers
sortNumbers(a) ==
  LET rank(i) == Cardinality({j \in DOMAIN a :
                    a[j] < a[i] \/ (a[j] = a[i] /\ j < i)}) + 1
  IN  [p \in 1..Len(a) |-> a[CHOOSE i \in DOMAIN a : rank(i) = p]]

\* [...new Set(sorted)]: the distinct numbers of a, ascending
sortedUnique(a) ==
  LET S == {a[i] : i \in DOMAIN a}
  IN  [p \in 1..Cardinality(S) |->
         CHOOSE x \in S : Cardinality({y \in S : y < x}) = p - 1]

RECURSIVE SumOver(_, _, _)
SumOver(a, lo, hi) == IF lo > hi THEN 0 ELSE a[lo] + SumOver(a, lo + 1, hi)

\* exact quotients n / d, d > 0
Quot(n, d) == [n |-> n, d |-> d]
QuotAdd(x, y) == Quot(x.n * y.d + y.n * x.d, x.d * y.d)
QuotLess(x, y) == x.n * y.d < y.n * x.d

\* the sum of squared distances from the mean of a[lo..hi]
sumSquares(a, lo, hi) ==
  LET n == hi - lo + 1
      s == SumOver(a, lo, hi)
      q == SumOver([i \in DOMAIN a |-> a[i] * a[i]], lo, hi)
  IN  Quot(n * q - s * s, n)

\* column l of lowerClassLimits and varianceCombinations, rows 1..Len(d)
RECURSIVE jenksColumn(_, _)
jenksColumn(d, l) ==
  IF l = 1
    THEN [i \in 1..Len(d) |->
            [limit |-> 1,
             variance |-> IF i = 1 THEN Quot(0, 1)
                          ELSE Bind(i * d[i] - SumOver(d, 1, i), LAMBDA x :
                                 Quot(x * x, i))]]
    ELSE Bind(jenksColumn(d, l - 1), LAMBDA prev :
           [m \in 1..Len(d) |->
              IF m = 1 THEN [limit |-> 1, variance |-> Quot(0, 1)]
              ELSE Bind([j \in 1..(m - 1) |->
                           QuotAdd(prev[j].variance, sumSquares(d, j + 1, m))],
                        LAMBDA totalVariance :
                     Bind(CHOOSE j \in 1..(m - 1) :
                            /\ \A h \in 1..(j - 1) :
                                 QuotLess(totalVariance[j], totalVariance[h])
                            /\ \A h \in (j + 1)..(m - 1) :
                                 ~QuotLess(totalVariance[h], totalVariance[j]),
                          LAMBDA lowerClassLimit :
                       [limit |-> lowerClassLimit,
                        variance |-> totalVariance[lowerClassLimit]]))])

\* the loop that reads the breaks off the matrix; row 0 holds 0 and row -1
\* does not exist
RECURSIVE jenksExtract(_, _, _, _)
jenksExtract(d, k, i, breaks) ==
  IF i <= 1 THEN [threw |-> FALSE, breaks |-> breaks]
  ELSE IF k < 0 THEN [threw |-> TRUE, breaks |-> <<>>]
  ELSE Bind(IF k = 0 THEN 0 ELSE jenksColumn(d, i)[k].limit, LAMBDA limit :
         jenksExtract(d, limit - 1, i - 1,
                      Append(breaks, IF limit = 0 THEN Undefined ELSE Num(d[limit]))))

\* breaks.push(last) until there are numClasses + 1
RECURSIVE padBreaks(_, _)
padBreaks(breaks, n) ==
  IF Len(breaks) >= n THEN breaks
  ELSE padBreaks(Append(breaks, breaks[Len(breaks)]), n)

\* breaks.sort((a, b) => a - b): numbers ascending, undefined last
sortBreaks(breaks) ==
  LET nums == SelectSeq(breaks, LAMBDA b : b.type = "number")
      rest == SelectSeq(breaks, LAMBDA b : b.type # "number")
      ordered == sortNumbers([i \in 1..Len(nums) |-> nums[i].num])
  IN  [i \in 1..Len(ordered) |-> Num(ordered[i])] \o rest

\* the result, or the TypeError of reading a row that does not exist
getJenksBreaks(values, numClasses) ==
  Bind(sortedUnique(values), LAMBDA d :
    IF Len(d) <= numClasses
      THEN [threw |-> FALSE, breaks |-> [i \in 1..Len(d) |-> Num(d[i])]]
      ELSE Bind(jenksExtract(d, Len(d), numClasses, <<Num(d[1])>>), LAMBDA r :
             IF r.threw THEN r
             ELSE Bind(IF r.breaks[Len(r.breaks)] # Num(d[Len(d)])
                         THEN Append(r.breaks, Num(d[Len(d)]))
                         ELSE r.breaks, LAMBDA breaks :
                    [threw |-> FALSE,
                     breaks |-> sortBreaks(padBreaks(breaks, numClasses + 1))])))

\* Math.ceil(b / magnitude) * magnitude for a positive integer b
niceBreak(b) ==
  IF b = 0 THEN 0
  ELSE Bind(NiceCeil(DecInt(b)), LAMBDA t : t.m * Pow10(t.e))

\* the inputs under study have max / min <= 1000000, so the logarithmic
\* branch of the function is never entered and is left out
getSimplifiedBreaks(values, numClasses) ==
  Bind(sortNumbers(SelectSeq(values, LAMBDA x : x > 0)), LAMBDA nonZeroData :
    IF Len(nonZeroData) = 0
      THEN [threw |-> FALSE,
            breaks |-> << Num(0), Num(1), Num(10), Num(100), Num(1000),
                          Num(10000), Num(100000), Num(1000000) >>]
    ELSE IF Len(nonZeroData) <= numClasses
      THEN [threw |-> FALSE,
            breaks |-> <<Num(0)>> \o [i \in 1..Len(nonZeroData) |-> Num(nonZeroData[i])]]
    ELSE LET max == nonZeroData[Len(nonZeroData)]
             quantile(i) ==
               LET index == ((i * Len(nonZeroData)) \div numClasses) - 1
               IN  nonZeroData[(IF index < 0 THEN 0 ELSE index) + 1]
             breaks == <<0>> \o [i \in 1..numClasses |-> quantile(i)]
             withMax == [i \in 1..Len(breaks) |->
                           IF i = Len(breaks) /\ breaks[i] < max THEN max
                           ELSE breaks[i]]
         IN  [threw |-> FALSE,
              breaks |-> [i \in 1..Len(withMax) |-> Num(niceBreak(withMax[i]))]])

\* ------------------------------------------- the class breaks on their own
\* the number lists under study: up to MaxBreakData values from -1 to MaxAmount
BreakInputs ==
  UNION {[1..n -> (0 - 1)..MaxAmount] : n \in 0..MaxBreakData}

InitBreaks ==
  /\ IdleControls
  /\ IdleDashboard
  /\ rawValue \in [data : BreakInputs, numClasses : 1..MaxClasses]
  /\ coerced = <<>>
  /\ applied = FALSE
  /\ IdleSheet
  /\ IdleResources
  /\ page = "dashboard"

JenksBreaks ==
  /\ ~applied
  /\ coerced' = <<[fn |-> "getJenksBreaks",
                   result |-> getJenksBreaks(rawValue.data, rawValue.numClasses)]>>
  /\ applied' = TRUE
  /\ UNCHANGED <<currentPage, paging, capture, data, loading, dashboard, rawValue, sheet, resources, exported>>

SimplifiedBreaks ==
  /\ ~applied
  /\ coerced' = <<[fn |-> "getSimplifiedBreaks",
                   result |-> getSimplifiedBreaks(rawValue.data, rawValue.numClasses)]>>
  /\ applied' = TRUE
  /\ UNCHANGED <<currentPage, paging, capture, data, loading, dashboard, rawValue, sheet, resources, exported>>

NextBreaks == JenksBreaks \/ SimplifiedBreaks

SpecBreaks == InitBreaks /\ [][NextBreaks]_vars

\* ------------------------------------------------------- filter summary
\* the value of the "Locations" entry of the filter summary: its fixed
\* text, or the names of the selected states, and whether "+ Territories"
\* is appended
locationsSummary(ss, terr) ==
  IF ss = {} /\ ~terr
    THEN [text |-> "All states", names |-> {}, plus |-> FALSE]
  ELSE IF Cardinality(ss) = Cardinality(DOMAIN stateNames) /\ terr
    THEN [text |-> "All states & territories", names |-> {}, plus |-> FALSE]
  ELSE IF ss = {} /\ terr
    THEN [text |-> "U.S. Territories only", names |-> {}, plus |-> FALSE]
  ELSE IF Cardinality(ss) <= 3
    THEN [text |-> "", names |-> {stateNames[abbr] : abbr \in ss \cap DOMAIN stateNames},
          plus |-> terr]
  ELSE [text |-> "states selected", names |-> {}, plus |-> terr]

\* ----------------------------------------------------------- record table
\* Math.ceil(sortedData.length / itemsPerPage); sorting keeps every row, so
\* sortedData is as long as filteredData
totalPages == (Len(filteredData) + itemsPerPage - 1) \div itemsPerPage

SortColumns == {"incident_start", "state", "incident_type", "event", "incident_number"}
PageSizes == {10, 25, 50, 100}

\* a click on a column header
handleSort(column) ==
  /\ ~loading
  /\ IF sortColumn = column
       THEN /\ sortDirection' = IF sortDirection = "asc" THEN "desc" ELSE "asc"
            /\ UNCHANGED sortColumn
       ELSE /\ sortColumn' = column
            /\ sortDirection' = "asc"
  /\ currentPage' = 1
  /\ UNCHANGED <<data, loading, dashboard, study, selectedEvent, selectedEvents,
                 sortField, congressionalData, congressionalDataLoading, now,
                 resources, exported, itemsPerPage, capture>>

\* the "Records per page" select
setItemsPerPage(size) ==
  /\ ~loading
  /\ itemsPerPage' = size
  /\ currentPage' = 1
  /\ UNCHANGED <<data, loading, dashboard, study, sheet, resources, exported,
                 sortColumn, capture>>

\* Previous, disabled on page 1: Math.max(prev - 1, 1)
PreviousPage ==
  /\ ~loading
  /\ currentPage # 1
  /\ currentPage' = IF currentPage - 1 > 1 THEN currentPage - 1 ELSE 1
  /\ UNCHANGED <<data, loading, dashboard, study, sheet, resources, exported,
                 paging, capture>>

\* Next, disabled when currentPage === totalPages: Math.min(prev + 1, totalPages)
NextPage ==
  /\ ~loading
  /\ currentPage # totalPages
  /\ currentPage' = IF currentPage + 1 < totalPages THEN currentPage + 1 ELSE totalPages
  /\ UNCHANGED <<data, loading, dashboard, study, sheet, resources, exported,
                 paging, capture>>

\* a CSV of MaxTableRows rows, Texas and Puerto Rico in turn
TableRows == [i \in 1..MaxTableRows |-> IF i % 2 = 1 THEN Catalogue[1] ELSE Catalogue[4]]

InitPaging ==
  /\ IdleControls
  /\ IdleDashboard
  /\ IdleStudy
  /\ IdleSheet
  /\ IdleResources
  /\ page = "dashboard"

\* the dashboard with its record table: the filter controls and the table's
\* own controls
NextPaging ==
  \/ LoadComplete(TableRows)
  \/ LoadFailed
  \/ \E abbr \in DOMAIN stateNames : ToggleState(abbr)
  \/ SelectAllStates
  \/ DeselectAllStates
  \/ ToggleTerritories
  \/ \E type \in uniqueDisasterTypes(data) : ToggleDisasterType(type)
  \/ SelectAllDisasterTypes
  \/ DeselectAllDisasterTypes
  \/ ToggleFundingType("ihp")
  \/ SelectAllFundingTypes
  \/ DeselectAllFundingTypes
  \/ \E sm \in MonthChoices, em \in MonthChoices : handleManualDateChange(2025, sm, 2025, em)
  \/ \E column \in SortColumns : handleSort(column)
  \/ \E size \in PageSizes : setItemsPerPage(size)
  \/ PreviousPage
  \/ NextPage

SpecPaging == InitPaging /\ [][NextPaging]_vars

\* ------------------------------------------- the time-frame selector alone
\* the years and months picked in the selects before Apply is pressed
ManualYears == {2024, 2025}
ManualMonths == {1, 10}

NextDates ==
  \/ \E rows \in Datasets : LoadComplete(rows)
  \/ LoadFailed
  \/ \E sy \in ManualYears, sm \in ManualMonths, ey \in ManualYears, em \in ManualMonths :
        handleManualDateChange(sy, sm, ey, em)

SpecDates == Init /\ [][NextDates]_vars

\* ------------------------------------------------- fact-sheet PDF download
\* FactSheetDisplay.handleDownload, one action per stretch between awaits.
\* A call stands at "idle", "importing" (the two dynamic imports), "settling"
\* (the 100 ms timeout), "capturing" (html2canvas), "done" or "failed" (the
\* catch block has run).

\* a click on the download button, which a hidden button cannot get; the
\* fact sheet is mounted, so factSheetRef.current is set
PdfRequested(c) ==
  /\ selectedEvent # Null
  /\ ~buttonsHidden
  /\ downloads[c] = "idle"
  /\ \A b \in DownloadCalls : b < c => downloads[b] # "idle"
  /\ downloads' = [downloads EXCEPT ![c] = "importing"]
  /\ UNCHANGED <<data, loading, dashboard, study, sheet, resources, exported,
                 currentPage, paging, toasts, buttonsHidden>>

\* both imports resolve: the toast is appended and every button hidden
PdfLibrariesLoaded(c) ==
  /\ downloads[c] = "importing"
  /\ toasts' = toasts \cup {c}
  /\ buttonsHidden' = TRUE
  /\ downloads' = [downloads EXCEPT ![c] = "settling"]
  /\ UNCHANGED <<data, loading, dashboard, study, sheet, resources, exported,
                 currentPage, paging>>

\* catch: console.error and alert, nothing else
PdfCaught(c) ==
  /\ logged' = logged \cup {"Error generating PDF:"}
  /\ downloads' = [downloads EXCEPT ![c] = "failed"]
  /\ UNCHANGED <<data, loading, dashboard, study, sheet, statesGeoJson, fetches,
                 requests, page, exported, currentPage, paging, toasts,
                 buttonsHidden>>

\* an import rejects
PdfLibrariesFailed(c) ==
  /\ downloads[c] = "importing"
  /\ PdfCaught(c)

\* the timeout fires and html2canvas is called
PdfDomSettled(c) ==
  /\ downloads[c] = "settling"
  /\ downloads' = [downloads EXCEPT ![c] = "capturing"]
  /\ UNCHANGED <<data, loading, dashboard, study, sheet, resources, exported,
                 currentPage, paging, toasts, buttonsHidden>>

\* html2canvas resolves and the PDF is built and saved: the buttons are
\* shown again and the call's toast removed
PdfSaved(c) ==
  /\ downloads[c] = "capturing"
  /\ buttonsHidden' = FALSE
  /\ toasts' = toasts \ {c}
  /\ downloads' = [downloads EXCEPT ![c] = "done"]
  /\ UNCHANGED <<data, loading, dashboard, study, sheet, resources, exported,
                 currentPage, paging>>

\* html2canvas rejects, or toDataURL, jsPDF, addImage or save throws
PdfCaptureFailed(c) ==
  /\ downloads[c] = "capturing"
  /\ PdfCaught(c)

\* a fact sheet on display for one of the selectable events
InitPdf ==
  /\ IdleControls
  /\ IdleDashboard
  /\ IdleStudy
  /\ selectedEvent \in SelectableEvents
  /\ selectedEvents = <<selectedEvent>>
  /\ sortField = "funding"
  /\ sortDirection = "desc"
  /\ congressionalData = <<>>
  /\ congressionalDataLoading = TRUE
  /\ now = Today
  /\ IdleResources
  /\ page = "fact-sheet"

NextPdf ==
  \E c \in DownloadCalls :
    \/ PdfRequested(c)
    \/ PdfLibrariesLoaded(c)
    \/ PdfLibrariesFailed(c)
    \/ PdfDomSettled(c)
    \/ PdfSaved(c)
    \/ PdfCaptureFailed(c)

SpecPdf == InitPdf /\ [][NextPdf]_vars

\* --------------------------------------------------- timeline and totals
\* getFullYear and getMonth() + 1 of new Date(s) for a valid s: a date-only
\* ISO string is UTC midnight, which west of Greenwich is the day before
localMonth(s, z) ==
  IF s.kind = "isoDate" /\ z < 0 /\ s.d = 1
    THEN IF s.m = 1 THEN [year |-> s.y - 1, month |-> 12]
         ELSE [year |-> s.y, month |-> s.m - 1]
    ELSE [year |-> s.y, month |-> s.m]

\* Number(cell) || 0
numberOrZero(v) == OrZero(ToNumber(v)).v

RECURSIVE monthFunding(_, _)
monthFunding(items, n) ==
  IF n = 0 THEN 0
  ELSE monthFunding(items, n - 1)
       + numberOrZero(items[n].ihp_total) + numberOrZero(items[n].pa_total)
       + numberOrZero(items[n].cdbg_dr_allocation)

\* TimeSeriesBrush.timeSeriesData: the rows with a start date and a truthy
\* IHP, PA or CDBG-DR cell, grouped by the month of their start date, one
\* entry per month in the order of time; a row whose date does not parse
\* makes toISOString throw a RangeError
timeSeriesData(rows, z) ==
  Bind(SelectSeq(rows, LAMBDA item :
         /\ item.incident_start.kind # "missing"
         /\ \/ Truthy(item.ihp_total) \/ Truthy(item.pa_total)
            \/ Truthy(item.cdbg_dr_allocation)), LAMBDA kept :
    IF \E i \in DOMAIN kept : ~NewDate(kept[i].incident_start, z).valid
      THEN [threw |-> TRUE, months |-> <<>>]
      ELSE Bind({localMonth(kept[i].incident_start, z) : i \in DOMAIN kept}, LAMBDA keys :
             [threw |-> FALSE,
              months |->
                [p \in 1..Cardinality(keys) |->
                   Bind(CHOOSE k \in keys :
                          Cardinality({j \in keys : j.year * 12 + j.month
                                                     < k.year * 12 + k.month}) = p - 1,
                        LAMBDA k :
                     Bind(SelectSeq(kept, LAMBDA item :
                            localMonth(item.incident_start, z) = k), LAMBDA items :
                       [year |-> k.year, month |-> k.month,
                        totalFunding |-> monthFunding(items, Len(items)),
                        count |-> Len(items)]))]]))

\* the funding summary: each source's total over the filtered rows, counted
\* when the source is selected, and their sum
RECURSIVE sourceTotal(_, _, _, _)
sourceTotal(fd, sft, key, n) ==
  IF n = 0 THEN 0
  ELSE sourceTotal(fd, sft, key, n - 1)
       + (IF key \in sft
            THEN coerceFunding(Field(fd[n], IF key = "ihp" THEN "ihp_total"
                                            ELSE IF key = "pa" THEN "pa_total"
                                            ELSE key)).v
            ELSE 0)

grandTotal(fd, sft) ==
  sourceTotal(fd, sft, "ihp", Len(fd)) + sourceTotal(fd, sft, "pa", Len(fd))
  + sourceTotal(fd, sft, "cdbg_dr_allocation", Len(fd))
  + sourceTotal(fd, sft, "sba_total_approved_loan_amount", Len(fd))

\* -------------------------------------------------------------- properties
\* the CSV column behind each funding key of the dashboard
FundingColumn(key) ==
  IF key = "ihp" THEN "ihp_total" ELSE IF key = "pa" THEN "pa_total" ELSE key

\* the amount of funding source key in row, as a number
Amount(row, key) == coerceFunding(Field(row, FundingColumn(key)))

InFiltered(row) == \E j \in DOMAIN filteredData : filteredData[j] = row

\* the date part of the filter's callback under the present criteria
DatePasses(row) ==
  row.incident_start.kind # "missing" /\ dateMatch(row, dateRange, tz)

RegionPasses(row) == stateMatch(row, selectedStates, includesTerritories)

TypePasses(row) == typeMatch(row, selectedDisasterTypes)

C4_FilterIdempotent ==
  ~loading =>
    Filter(filteredData, dateRange, selectedStates, includesTerritories,
           selectedDisasterTypes, selectedFundingTypes, tz) = filteredData

\* C4: the filter has kept some records and dropped others
C4_Witness ==
  ~loading /\ filteredData # <<>> /\ Len(filteredData) < Len(data)

\* the calendar day a start-date cell names
WrittenDay(start) == DayNumber(start.y, start.m, start.d)

\* C5, as stated: a record passes the date predicate iff its start date is
\* parseable and lies in the inclusive range from the first day of the start
\* month to the last day of the end month.
C5_DateInsideMonthRange ==
  ~loading =>
    \A i \in DOMAIN data :
      DatePasses(data[i]) <=>
        /\ data[i].incident_start.kind \in {"isoDate", "usDate"}
        /\ WrittenDay(data[i].incident_start)
             >= DayNumber(dateRange.startYear, dateRange.startMonth, 1)
        /\ WrittenDay(data[i].incident_start)
             <= DayNumber(dateRange.endYear, dateRange.endMonth,
                          DaysInMonth(dateRange.endYear, dateRange.endMonth))

\* a string that parseFloat reads as a negative number: white space, "-",
\* then digits, one of them not 0, before anything else
NegativeNumeral(s) ==
  \E i \in DOMAIN s :
    /\ \A h \in 1..(i - 1) : s[h] = " "
    /\ s[i] = "-"
    /\ \E j \in (i + 1)..Len(s) :
         /\ \A h \in (i + 1)..j : s[h] \in Digits
         /\ \E h \in (i + 1)..j : s[h] # "0"

NegativeInput(v) ==
  \/ v.type = "number" /\ v.num < 0
  \/ v.type = "string" /\ NegativeNumeral(v.str)

\* C6, as stated: the coercion yields a non-negative finite number for every
\* string, number, null or undefined input, and 0 for "" and for null.
C6_CoercionNonNegative ==
  applied =>
    /\ ~coerced[1].nan
    /\ coerced[1].v >= 0
    /\ rawValue \in {Null, Str(<<>>)} => coerced[1].v = 0

\* C6, amended: for null, undefined, a finite number and a string of spaces,
\* signs, digits and letters the coercion yields a finite number; it is
\* negative exactly when the input is a negative number or a string that
\* parseFloat reads as a negative number, and 0 for "" and for null.
C6_CoercionKeepsSign ==
  applied =>
    /\ ~coerced[1].nan
    /\ coerced[1].v < 0 <=> NegativeInput(rawValue)
    /\ rawValue \in {Null, Str(<<>>)} => coerced[1].v = 0

\* C6: a string with no numeric prefix has been coerced to 0
C6_Witness ==
  applied /\ rawValue = Str(<<"x", "7">>) /\ coerced = <<Fin(0)>>

\* the sum of row's amounts over the selected funding sources
SelectedTotal(row) ==
  (IF "ihp" \in selectedFundingTypes THEN Amount(row, "ihp").v ELSE 0)
  + (IF "pa" \in selectedFundingTypes THEN Amount(row, "pa").v ELSE 0)
  + (IF "cdbg_dr_allocation" \in selectedFundingTypes
       THEN Amount(row, "cdbg_dr_allocation").v ELSE 0)
  + (IF "sba_total_approved_loan_amount" \in selectedFundingTypes
       THEN Amount(row, "sba_total_approved_loan_amount").v ELSE 0)

RECURSIVE SelectedSum(_, _)
SelectedSum(k, n) ==
  IF n = 0 THEN 0
  ELSE (IF filteredData[n].state = k THEN SelectedTotal(filteredData[n]) ELSE 0)
       + SelectedSum(k, n - 1)

\* C7, as stated: a region's aggregate funding equals the sum, over its
\* filtered records, of the amounts of the selected funding sources (any
\* subset of IHP, PA, CDBG-DR allocation, SBA approved loans).
C7_FundingSumsSelectedSources ==
  ~loading =>
    \A k \in DOMAIN stateData :
      stateData[k].funding = SelectedSum(k, Len(filteredData))

RECURSIVE MapSum(_, _)
MapSum(k, n) ==
  IF n = 0 THEN 0
  ELSE (IF filteredData[n].state = k
          THEN mapTotalFunding(filteredData[n], selectedFundingTypes) ELSE 0)
       + MapSum(k, n - 1)

\* C8: every key of the map getStateData returns is a key of the state-name
\* table and not empty; an entry's count and funding come from the filtered
\* records of that very region, so a record with an empty or unrecognized
\* region creates no entry and adds to none.
C8_OnlyRecognizedRegions ==
  /\ DOMAIN stateData \subseteq DOMAIN stateNames
  /\ "" \notin DOMAIN stateData
  /\ \A k \in DOMAIN stateData :
       /\ stateData[k].count
            = Cardinality({j \in DOMAIN filteredData : filteredData[j].state = k})
       /\ stateData[k].funding = MapSum(k, Len(filteredData))

\* C8: the filtered set holds a record of an unrecognized region beside a
\* record of a recognized one
C8_Witness ==
  /\ ~loading
  /\ \E j \in DOMAIN filteredData :
       filteredData[j].state # "" /\ filteredData[j].state \notin DOMAIN stateNames
  /\ DOMAIN stateData # {}

\* C9: in every reachable state dynamicThresholds has no duplicates, is
\* strictly ascending and starts with 0.
C9_ThresholdsAscendingFromZero ==
  /\ Len(dynamicThresholds) >= 1
  /\ dynamicThresholds[1] = DecZero
  /\ \A i, j \in DOMAIN dynamicThresholds :
       i < j => DecLess(dynamicThresholds[i], dynamicThresholds[j])

\* C9: the effect has stored breakpoints computed from positive funding
C9_Witness ==
  /\ ~loading
  /\ \E k \in DOMAIN stateData : stateData[k].funding > 0
  /\ dynamicThresholds # InitialThresholds

AggregateFunding == {stateData[k].funding : k \in DOMAIN stateData}

LastThreshold == dynamicThresholds[Len(dynamicThresholds)]

\* C10, as stated: for every set of region aggregates the last threshold
\* equals the maximum aggregate funding among the regions.
C10_LastIsMaximum ==
  (applied /\ AggregateFunding # {}) =>
    LastThreshold = DecInt(SetMax(AggregateFunding))

\* C10, amended: when some region has positive aggregate funding the last
\* threshold equals the maximum aggregate funding; when none has, or there
\* is no region at all, the thresholds are the default ladder, which ends
\* at 5,000,000,000.
C10_LastIsMaximumOrLadder ==
  applied =>
    IF \E f \in AggregateFunding : f > 0
      THEN LastThreshold = DecInt(SetMax(AggregateFunding))
      ELSE dynamicThresholds = DefaultLadder /\ LastThreshold = Dec(5, 9)

\* C10: the aggregates 0, 500, 2000 and 1000000 have been classified and
\* the last threshold is 1000000
C10_Witness ==
  applied /\ stateData = ExampleAggregates /\ LastThreshold = DecInt(1000000)

\* 0, 100, 10000, 100000, 1000000, 10000000, 100000000, 1000000000, 5000000000
FixedLadder ==
  << DecInt(0), DecInt(100), DecInt(10000), DecInt(100000), DecInt(1000000),
     DecInt(10000000), DecInt(100000000), DecInt(1000000000),
     DecMul(DecInt(5), DecInt(1000000000)) >>

\* C11: when no region aggregate has positive funding, and when there is no
\* aggregate at all, the classifier returns exactly the ladder 0, 100, 10000,
\* 100000, 1000000, 10000000, 100000000, 1000000000, 5000000000, and the
\* effect stores it.
C11_NoFundingGivesLadder ==
  (\A f \in AggregateFunding : f <= 0) =>
    /\ calculateDynamicThresholds(stateData) = FixedLadder
    /\ applied => dynamicThresholds = FixedLadder

\* C11: aggregates exist, none with positive funding, and the effect has run
C11_Witness ==
  /\ applied
  /\ AggregateFunding # {}
  /\ \A f \in AggregateFunding : f <= 0
  /\ Len(dynamicThresholds) = 9

\* the CSV row an event of the creator's list was read from
RawOf(e) == FactEvent(e.incident_number)

\* C12: an event loaded by the creator whose CSV row has an average award of
\* 5000, an IHP total of 500000 and no applicant count is shown with average
\* assistance 5000 and 100 applicants
C12_AwardGivesApplicants ==
  (/\ selectedEvent # Null
   /\ RawOf(selectedEvent).ihp_average_award = Num(5000)
   /\ RawOf(selectedEvent).ihp_total = Num(500000)
   /\ ~Truthy(RawOf(selectedEvent).ihp_applicants))
  => /\ eventStats(selectedEvent).avgAssistance = Ratio(5000, 1)
     /\ eventStats(selectedEvent).totalApplicants = 100

\* C13: for two or more selected events the combined applicant count is the
\* sum of the counts the single-event chain reports for each event alone
C13_CombinedIsSumOfChains ==
  (applied /\ Len(selectedEvents) >= 2) =>
    coerced[1].grandTotals.totalApplicants =
      SumSeq([i \in 1..Len(selectedEvents) |-> eventStats(selectedEvents[i]).totalApplicants])

\* two events without a count, whose chains end in different estimates (one
\* by the average award, one by the incident type)
C13_Witness ==
  /\ applied
  /\ Len(selectedEvents) >= 2
  /\ \A i \in 1..2 : /\ ~Truthy(selectedEvents[i].ihp_applicants)
                     /\ selectedEvents[i].ihp_total = Num(500000)
  /\ selectedEvents[1].ihp_average_award = Num(5000)
  /\ ~Truthy(selectedEvents[2].ihp_average_award)
  /\ coerced[1].grandTotals.totalApplicants = 100 + 122

\* the value of a quotient is n
RatioIs(r, n) == r.num = n * r.den

\* the funding the fact sheet counts for one event: IHP, PA and CDBG-DR
EventTotal(e) ==
  coerceFunding(e.ihp_total).v + coerceFunding(e.pa_total).v
  + coerceFunding(e.cdbg_dr_allocation).v

\* the events of data in the region on display that satisfy P
RegionEvents(P(_)) ==
  SelectSeq(data, LAMBDA e : e.state = selectedEvent.state /\ P(e))

RegionTotal(P(_)) ==
  Bind(RegionEvents(P), LAMBDA es : SumSeq([i \in 1..Len(es) |-> EventTotal(es[i])]))

\* the event has a start date no more than ten years before the clock
InLastTenYears(e) ==
  /\ e.incident_start.kind = "usDate"
  /\ \/ e.incident_start.y > now.y - 10
     \/ /\ e.incident_start.y = now.y - 10
        /\ \/ e.incident_start.m > now.m
           \/ e.incident_start.m = now.m /\ e.incident_start.d > now.d

\* C14 as stated: the annual average is the total funding of all the
\* region's events divided by 10
C14_AverageOfRegionTotal ==
  selectedEvent # Null =>
    shownSpend.annualAverage.num * 10
      = RegionTotal(LAMBDA e : TRUE) * shownSpend.annualAverage.den

\* C14: the annual average is the total funding (IHP, PA, CDBG-DR) of the
\* region's events that started within the last ten years, divided by
\* exactly 10 whatever span their dates cover; a region whose only event
\* started in that window with 10,000,000 has an annual average of 1,000,000
C14_AverageOverTenYearWindow ==
  selectedEvent # Null =>
    /\ shownSpend.annualAverage.num * 10
         = RegionTotal(InLastTenYears) * shownSpend.annualAverage.den
    /\ (/\ Len(RegionEvents(LAMBDA e : TRUE)) = 1
        /\ InLastTenYears(selectedEvent)
        /\ EventTotal(selectedEvent) = 10000000)
       => RatioIs(shownSpend.annualAverage, 1000000)

\* the region whose one event has 10,000,000 is on display
C14_Witness ==
  /\ selectedEvent # Null
  /\ Len(RegionEvents(LAMBDA e : TRUE)) = 1
  /\ EventTotal(selectedEvent) = 10000000
  /\ RatioIs(shownSpend.annualAverage, 1000000)

\* the total funding of each element of a sequence of events
Totals(es) == [i \in 1..Len(es) |-> EventTotal(es[i])]

\* C15: with at most 5 candidate events the chart data holds all of them,
\* as many as there are, from the largest total funding to the smallest;
\* totals 100, 300, 200 come out as 300, 200, 100
C15_FewEventsAllReturnedDescending ==
  (selectedEvent # Null /\ Len(shownCandidates) <= 5) =>
    /\ Len(shownStorms) = Len(shownCandidates)
    /\ \A i \in 1..Len(shownCandidates) :
         Cardinality({j \in 1..Len(shownCandidates) : shownCandidates[j] = shownCandidates[i]})
         = Cardinality({j \in 1..Len(shownStorms) :
                          shownStorms[j] = chartEntry(shownCandidates[i], FALSE)})
    /\ \A i \in 1..(Len(shownStorms) - 1) :
         shownStorms[i].totalFunding >= shownStorms[i + 1].totalFunding
    /\ Totals(shownCandidates) = <<100, 300, 200>>
       => [i \in 1..3 |-> shownStorms[i].totalFunding] = <<300, 200, 100>>

\* the region on display has the three candidates of 100, 300 and 200
C15_Witness ==
  /\ selectedEvent # Null
  /\ Totals(shownCandidates) = <<100, 300, 200>>
  /\ [i \in 1..Len(shownStorms) |-> shownStorms[i].totalFunding] = <<300, 200, 100>>

\* the years between the earliest and the latest start date of the region
\* on display
RegionYears == {e.incident_start.y : e \in {data[i] : i \in {j \in 1..Len(data) :
                   data[j].state = selectedEvent.state /\ HasStart(data[j])}}}
RegionSpan == SetMax(RegionYears) + SetMax({0 - y : y \in RegionYears})

shownWindow == yearsToConsider(stateEvents(data, selectedEvent), tz)

\* C16 as stated: the lookback window is 10, 15 or 20 years
C16_WindowIsTenFifteenOrTwenty ==
  selectedEvent # Null => shownWindow \in {10, 15, 20}

\* C16: the lookback window is 10 years when the region has no dated event
\* or its start dates span at most 10 calendar years, the span itself when
\* that is 11 to 14 years, 15 for a span of 15 to 19 and 20 for 20 or more
C16_WindowFollowsSpan ==
  selectedEvent # Null =>
    /\ shownWindow \in 10..15 \cup {20}
    /\ RegionYears = {} => shownWindow = 10
    /\ RegionYears # {} =>
         /\ RegionSpan <= 10 => shownWindow = 10
         /\ RegionSpan \in 11..14 => shownWindow = RegionSpan
         /\ RegionSpan \in 15..19 => shownWindow = 15
         /\ RegionSpan >= 20 => shownWindow = 20

\* a region whose start dates span 12 years is on display
C16_Witness ==
  /\ selectedEvent # Null
  /\ RegionYears # {}
  /\ RegionSpan = 12
  /\ shownWindow = 12

\* C17: with n candidates the chart draws min(n, d) events, d being n up to
\* 15 candidates and 20 beyond
C17_ChartDrawsDisplayCount ==
  selectedEvent # Null =>
    LET n == Len(shownCandidates)
        d == IF n <= 15 THEN n ELSE 20
    IN  Len(shownBars) = (IF n < d THEN n ELSE d)

\* the loaded district rows of the regions of the selection
MatchingDistricts ==
  LET abbrs == {selectedEvents[i].state : i \in 1..Len(selectedEvents)}
      names == {creatorStateNames[a] : a \in abbrs \cap DOMAIN creatorStateNames}
  IN  {congressionalData[i] : i \in {j \in 1..Len(congressionalData) :
         congressionalData[j].state_name \in abbrs \cup names}}

\* the value a district row is sorted by
SortValue(row) ==
  IF sortField = "funding" THEN NumOrZero(row.total_funding)
  ELSE NumOrZero(row.total_applicants)

\* row a may not stand after row b in the chosen direction
Before(a, b) ==
  IF sortDirection = "desc" THEN SortValue(a) > SortValue(b)
  ELSE SortValue(a) < SortValue(b)

\* C18: the district list is the first 10 of the loaded district rows whose
\* state is a region of the selection, in the order of the chosen column and
\* direction: it holds matching rows only, each once, 10 of them or all, in
\* order, and no row left out belongs before a listed one; the order starts
\* as funding, descending
C18_DistrictListIsTopTenSorted ==
  /\ selectedEvent = Null => (sortField = "funding" /\ sortDirection = "desc")
  /\ selectedEvent # Null =>
       LET list == shownDistricts
           listed == {list[i] : i \in 1..Len(list)}
       IN  /\ listed \subseteq MatchingDistricts
           /\ Cardinality(listed) = Len(list)
           /\ Len(list) = (IF Cardinality(MatchingDistricts) < 10
                             THEN Cardinality(MatchingDistricts) ELSE 10)
           /\ \A i \in 1..Len(list) : \A j \in (i + 1)..Len(list) : ~Before(list[j], list[i])
           /\ \A r \in MatchingDistricts \ listed : \A i \in 1..Len(list) : ~Before(r, list[i])

\* more than 10 districts match and the list is by applicants, ascending
C18_Witness ==
  /\ selectedEvent # Null
  /\ Cardinality(MatchingDistricts) > 10
  /\ sortField = "applicants"
  /\ sortDirection = "asc"
  /\ Len(shownDistricts) = 10
  /\ \E i \in 1..9 : Before(shownDistricts[i], shownDistricts[i + 1])

\* the full display name of a region code
DisplayName(code) ==
  IF code \in DOMAIN stateNames THEN stateNames[code]
  ELSE IF code \in DOMAIN creatorStateNames THEN creatorStateNames[code]
  ELSE code

\* C19: once Download is pressed, every row of the filtered view is in the
\* export with its region code replaced by the region's full display name,
\* whatever the filter and whatever the region, territories included
C19_EveryRowExportedWithFullName ==
  applied =>
    \A i \in 1..Len(filteredData) :
      /\ exported # <<>>
      /\ \E j \in 1..Len(exported[1]) :
           exported[1][j] = [filteredData[i] EXCEPT !.state = DisplayName(filteredData[i].state)]

\* what console.error is given when the load of a resource fails
FailureMessage(r) ==
  IF r = "csv" THEN "Error loading data:"
  ELSE IF r = "geojson" THEN "Error loading GeoJSON:"
  ELSE "Error loading congressional district data:"

\* the view shows nothing loaded from the resource
ShowsNothingOf(r) ==
  IF r = "csv" THEN data = <<>> /\ filteredData = <<>>
  ELSE IF r = "geojson" THEN statesGeoJson = Null
  ELSE congressionalData = <<>> /\ (selectedEvent # Null => shownDistricts = <<>>)

\* C20: once the load of the main CSV, the GeoJSON or the district CSV has
\* failed, the failure has been logged, the resource has been requested
\* once and is never requested again, and the view never shows records,
\* geometry or districts
C20_FailedLoadIsLoggedAndFinal ==
  /\ [](\A r \in Resources :
          requests[r] = "rejected" =>
            /\ FailureMessage(r) \in logged
            /\ fetches[r] = 1
            /\ ShowsNothingOf(r))
  /\ [][\A r \in Resources :
          requests[r] = "rejected" =>
            /\ requests'[r] = "rejected"
            /\ fetches'[r] = fetches[r]]_vars

\* the CSV and the GeoJSON have both failed and the dashboard has been used
\* since
C20_Witness ==
  /\ requests["csv"] = "rejected"
  /\ requests["geojson"] = "rejected"
  /\ includesTerritories
  /\ selectedStates # {}

\* the elements of a sequence
Range(seq) == {seq[i] : i \in 1..Len(seq)}

\* the events of the region on display that started inside the lookback
\* window
RegionRecent ==
  Bind(YearsAgo(now, shownWindow), LAMBDA cutoff :
    RegionEvents(LAMBDA e : StartedSince(e, cutoff, tz)))

\* the backfill applies: fewer than 5 funded recent events, more than 10
\* events in the region
BackfillDue(recent, all) ==
  /\ Cardinality({i \in 1..Len(recent) : EventTotal(recent[i]) > 0}) < 5
  /\ Len(all) > 10

\* the candidates are the recent events and then the added ones
BackfillSound(recent, all, candidates) ==
  Bind(SubSeq(candidates, Len(recent) + 1, Len(candidates)), LAMBDA added :
    Bind({e \in Range(all) \ Range(recent) : EventTotal(e) > 0}, LAMBDA fundedOutside :
      /\ Len(candidates) >= Len(recent)
      /\ SubSeq(candidates, 1, Len(recent)) = recent
      /\ ~BackfillDue(recent, all) => added = <<>>
      /\ BackfillDue(recent, all) =>
            /\ Len(added) = (IF Cardinality(fundedOutside) < 10
                               THEN Cardinality(fundedOutside) ELSE 10)
            /\ Range(added) \subseteq fundedOutside
            /\ \A e \in fundedOutside \ Range(added) :
                 \A a \in Range(added) : EventTotal(e) <= EventTotal(a)
            /\ Cardinality(Range(candidates)) = Len(candidates)))

\* C21: the candidates are the recent events followed, when the backfill
\* applies, by at most 10 funded events from outside the window, none of
\* them smaller than a funded outside event left out, and no event twice;
\* when it does not apply the candidates are the recent events alone
C21_BackfillAddsTopFundedOnce ==
  selectedEvent # Null =>
    Bind(RegionRecent, LAMBDA recent :
      Bind(RegionEvents(LAMBDA e : TRUE), LAMBDA all :
        Bind(shownCandidates, LAMBDA candidates :
          BackfillSound(recent, all, candidates))))

\* the backfill applies with a funded recent event present and more than 10
\* funded events outside the window, of which 10 are added
C21_Witness ==
  /\ selectedEvent # Null
  /\ Bind(RegionRecent, LAMBDA recent :
        Bind(RegionEvents(LAMBDA e : TRUE), LAMBDA all :
          /\ BackfillDue(recent, all)
          /\ \E i \in 1..Len(recent) : EventTotal(recent[i]) > 0
          /\ Cardinality({e \in Range(all) \ Range(recent) : EventTotal(e) > 0}) > 10
          /\ Len(shownCandidates) = Len(recent) + 10))

Darkest == [from |-> colors[9], to |-> colors[9]]

\* C22: whenever at least one region has positive funding, the nine rounded
\* breakpoints 0, 0.0001, 0.001, 0.01, 0.05, 0.1, 0.25, 0.5 and 1 times the
\* maximum are pairwise different, so nine thresholds are stored and every
\* region with the highest funding is filled with the darkest colour.
C22_NineBreakpointsDarkestForMaximum ==
  (applied /\ \E f \in AggregateFunding : f > 0) =>
    Bind(calculateDynamicThresholds(stateData), LAMBDA t :
      /\ \A i, j \in 1..9 : i < j => t[i] # t[j]
      /\ Len(dynamicThresholds) = 9
      /\ \A k \in DOMAIN stateData :
           stateData[k].funding = SetMax(AggregateFunding) =>
             fillColor(createColorExpression(dynamicThresholds),
                       stateData[k].funding) = Darkest)

\* C22: two regions with funding 3 and 7 have been classified; 0.25 and 0.5
\* of the maximum, 1.75 and 3.5, were rounded up to 2 and 4; the region with
\* 7 is filled with the darkest colour and the other with a blend
C22_Witness ==
  /\ applied
  /\ AggregateFunding = {3, 7}
  /\ Len(dynamicThresholds) = 9
  /\ dynamicThresholds[7] = DecInt(2)
  /\ dynamicThresholds[8] = DecInt(4)
  /\ \E k \in DOMAIN stateData :
       /\ stateData[k].funding = 7
       /\ fillColor(createColorExpression(dynamicThresholds), 7) = Darkest
  /\ fillColor(createColorExpression(dynamicThresholds), 3)
       = [from |-> colors[7], to |-> colors[8]]

\* the distinct non-zero values of the input under study
UniqueNonZero == {rawValue.data[i] : i \in DOMAIN rawValue.data} \ {0}

StrictlyAscending(breaks) ==
  /\ \A i \in DOMAIN breaks : breaks[i].type = "number"
  /\ \A i, j \in DOMAIN breaks : i < j => breaks[i].num < breaks[j].num

\* C23, as stated: when the input has fewer distinct non-zero values than
\* the requested number of classes (and has some, none of them negative),
\* getJenksBreaks returns the distinct sorted values and getSimplifiedBreaks
\* returns 0 followed by them: every breakpoint after the 0 is a value of the
\* input, none is repeated, and the result is strictly ascending.
C23_FallbackStrictlyAscending ==
  (/\ applied
   /\ UniqueNonZero # {}
   /\ \A x \in UniqueNonZero : x > 0
   /\ Cardinality(UniqueNonZero) < rawValue.numClasses) =>
    Bind(coerced[1].result, LAMBDA r :
      /\ ~r.threw
      /\ StrictlyAscending(r.breaks)
      /\ IF coerced[1].fn = "getSimplifiedBreaks"
           THEN {r.breaks[i].num : i \in DOMAIN r.breaks} = UniqueNonZero \cup {0}
           ELSE {r.breaks[i].num : i \in DOMAIN r.breaks}
                  = {rawValue.data[i] : i \in DOMAIN rawValue.data})

\* C24, as stated: when no state is selected and the U.S. Territories option
\* is checked, the state the filter summary labels "U.S. Territories only",
\* every record of the filtered set has a territory region code.
C24_TerritoriesOnlyShowsTerritories ==
  (/\ ~loading
   /\ selectedStates = {}
   /\ includesTerritories
   /\ locationsSummary(selectedStates, includesTerritories).text
        = "U.S. Territories only") =>
    \A i \in DOMAIN filteredData : filteredData[i].state \in territories

\* C25, as stated: in every reachable state of the dashboard, after any
\* sequence of filter changes, sort clicks, items-per-page changes and
\* Previous/Next clicks, currentPage >= 1, and currentPage <= totalPages
\* whenever totalPages >= 1.
C25_PageWithinRange ==
  /\ currentPage >= 1
  /\ totalPages >= 1 => currentPage <= totalPages

\* (startYear, startMonth) <= (endYear, endMonth)
Ordered(dr) ==
  \/ dr.startYear < dr.endYear
  \/ dr.startYear = dr.endYear /\ dr.startMonth <= dr.endMonth

\* C26: in every reachable state the date range satisfies (startYear,
\* startMonth) <= (endYear, endMonth): the initial range does, and a step
\* that changes the range, which only Apply can take, ends in a range whose
\* start is not later than its end, so Apply with a start later than the end
\* leaves the range as it was.
C26_DateRangeOrdered ==
  /\ [](Ordered(dateRange))
  /\ [][/\ Ordered(dateRange')
        /\ \A sy \in ManualYears, sm \in ManualMonths,
              ey \in ManualYears, em \in ManualMonths :
             (/\ handleManualDateChange(sy, sm, ey, em)
              /\ ~Ordered([startYear |-> sy, startMonth |-> sm,
                           endYear |-> ey, endMonth |-> em]))
               => dateRange' = dateRange]_vars

\* C26: Apply has stored a range that starts in October 2024 and ends in
\* January 2025: the start month is the larger, the start year the smaller
C26_Witness ==
  /\ ~loading
  /\ dateRange = [startYear |-> 2024, startMonth |-> 10,
                  endYear |-> 2025, endMonth |-> 1]

\* the sum of the values of a record of numbers
RECURSIVE SumOfValues(_)
SumOfValues(f) ==
  IF DOMAIN f = {} THEN 0
  ELSE Bind(CHOOSE t \in DOMAIN f : TRUE, LAMBDA t :
         f[t] + SumOfValues([u \in DOMAIN f \ {t} |-> f[u]]))

\* C27, as stated: for every region aggregate returned by getStateData, the
\* per-type counts add up to the region's event count and the per-type
\* funding adds up to the region's funding total, for any filtered record
\* set, records with an empty disaster type included.
C27_TypeBreakdownAddsUp ==
  ~loading =>
    Bind(getStateData(filteredData, stateNames, selectedFundingTypes), LAMBDA sd :
      \A k \in DOMAIN sd :
        /\ SumOfValues(sd[k].types) = sd[k].count
        /\ SumOfValues(sd[k].typesFunding) = sd[k].funding)

\* the filtered set the current criteria give with the disaster types sdt
FilteredWithTypes(sdt) ==
  Filter(data, dateRange, selectedStates, includesTerritories, sdt,
         selectedFundingTypes, tz)

\* C28, as stated: selecting all disaster types, as the load and "Select
\* All" do, yields the same filtered set as selecting none, as "Deselect
\* All" does, for every record set and every other criteria.
C28_AllTypesSameAsNone ==
  ~loading => FilteredWithTypes(uniqueDisasterTypes(data)) = FilteredWithTypes({})

\* the call c of the download handler has returned
Finished(c) == downloads[c] \in {"done", "failed"}

\* C29, as stated: after the fact-sheet PDF download handler finishes,
\* whether PDF generation succeeded or failed at any step, the call's
\* "Generating PDF..." toast has been removed, and once no call is under way
\* every button hidden for the capture is visible again.
C29_CaptureUndoneAfterDownload ==
  /\ \A c \in DownloadCalls : Finished(c) => c \notin toasts
  /\ (/\ \E c \in DownloadCalls : Finished(c)
      /\ \A c \in DownloadCalls : Finished(c) \/ downloads[c] = "idle")
       => ~buttonsHidden

RECURSIVE TimelineSum(_, _)
TimelineSum(months, n) ==
  IF n = 0 THEN 0 ELSE months[n].totalFunding + TimelineSum(months, n - 1)

\* C30, as stated: for every filtered record set and funding-source
\* selection, the monthly totals shown in the timeline chart add up to the
\* Grand Total of the funding summary.
C30_TimelineAddsUpToGrandTotal ==
  ~loading =>
    Bind(filteredData, LAMBDA fd :
      Bind(timeSeriesData(fd, tz), LAMBDA chart :
        /\ ~chart.threw
        /\ TimelineSum(chart.months, Len(chart.months))
             = grandTotal(fd, selectedFundingTypes)))

====
